---- MODULE Spec2Model ----
(***************************************************************************)
(* A model of the academy actor runtime: the in-process (thread) message   *)
(* exchange, the exchange-client listener, remote handles, the agent's     *)
(* request dispatch and lifecycle, the launcher's and manager's restart    *)
(* loops, the manager's teardown and the cloud mailbox backend.            *)
(*                                                                         *)
(* Spec       the thread exchange: bind / register_agent / terminate /     *)
(*            send / recv / close on the shared mailbox table.             *)
(* FairSpec   Spec with weak fairness of a blocked recv() returning.       *)
(* SpecHandle two user clients with listener threads, the remote handles   *)
(*            of one of them and a running agent, over the same exchange.  *)
(* SpecAgent  requests of every kind sent to the running agent.            *)
(* FairSpecAgent  SpecAgent with weak fairness of the agent's steps.       *)
(* SpecTerminate  handle calls while the agent's mailbox is terminated;    *)
(*            FairSpecTerminate adds weak fairness of every task.          *)
(* SpecLifecycle  the Agent object: start, loops, shutdown.                *)
(* SpecRestart    the restart loops of Launcher and Manager, and wait().   *)
(* SpecManager    Manager.shutdown() and Manager.close() over two agents.  *)
(* SpecBackend    the cloud mailbox backend: owners, sharing, discovery.   *)
(* SpecDiscover   register_agent / terminate / discover on the exchange.   *)
(* SpecPing       RemoteHandle.ping with and without a timeout.            *)
(* SpecProxy      ProxyHandle: action / ping / shutdown on a local agent.  *)
(* SpecBind       clients bound to an own or to an agent's mailbox.        *)
(* SpecHybrid     the hybrid exchange: direct delivery, broker fallback.   *)
(* SpecLoop       EventLoopRunner: two runners sharing one event loop.     *)
(* SpecListen     the listener thread and the close of its mailbox;        *)
(*            FairSpecListen adds weak fairness of the threads.            *)
(* SpecLaunch     launch() of Launcher and of Manager.                     *)
(***************************************************************************)
EXTENDS Integers, Sequences, FiniteSets, TLC

\* Bounds of the model.
MaxTags == 2         \* Spec: messages created (Message tags are drawn 1..MaxTags)
MaxCalls == 2        \* SpecHandle: requests created
MaxApiCalls == 2     \* SpecLifecycle: calls of Agent.start() and of Agent.shutdown()
MaxRestarts == 2     \* SpecRestart: largest max_restarts / max_retries

\* Identifiers.  ClientId.new() / AgentId.new() draw from these pools.
ClientIds == {"c1", "c2"}
AgentIds == {"a1"}
Entities == ClientIds \cup AgentIds
Behaviors == {"EmptyBehavior"}
Tags == 1..MaxCalls
HandleIds == {1, 2}    \* RemoteHandle.handle_id values (uuid4), in order of creation
Callers == {"c1"}      \* the client whose code creates handles and sends; c2 only listens
ActionNames == {"ok", "fails", "null"}   \* method returns / raises / is missing
Requests == {<<"PingRequest", "none">>} \cup {<<"ActionRequest", n>> : n \in ActionNames}

NoLabel == 0
NoQueue == [exists |-> FALSE, items |-> <<>>, closed |-> FALSE]
EmptyQueue == [exists |-> TRUE, items |-> <<>>, closed |-> FALSE]

VARIABLES
    queues,      \* ThreadExchange.queues: EntityId -> Queue (NoQueue: no key)
    behaviors,   \* ThreadExchange.behaviors: insertion-ordered dict, as a sequence
    client,      \* per ClientId: "bound" | "closed"
    recvWait,    \* per ClientId: TRUE while a caller is inside recv()
    ret,         \* per ClientId: what the client's last send() / recv() raised
    nextTag,     \* next Message tag
    recvLog,     \* per mailbox: the messages recv() returned, in order
    handles,     \* the handles created: handle_id i is handles[i] = [owner, agent_id]
    bound_handles, \* per ClientId: the handle ids in its bound_handles dict
    futures,     \* per handle: the tags that are keys of its _futures dict
    future,      \* per tag: state of the call's Future object
    future_value, \* per tag: the result or exception the Future was completed with
    call,        \* per tag: where the caller of action() / ping() stands
    requests,    \* the request messages created, requests[t] has tag t
    listener,    \* per ClientId: "running" | "exited" | "crashed" listener thread
    inflight,    \* agent: tags of the action tasks that are running
    seen,        \* agent: tags of the requests its listener received
    respLog,     \* the response messages handed to send()
    respCount,   \* per tag: how many responses were produced for it
    processed,   \* pairs <<handle_id, tag>>: _process_response calls made
    dropped,     \* tags of responses the listener dropped (no handle for the label)
    agent,       \* the Agent object: lifecycle state, config, loops, recorded errors
    runner,      \* the launcher's / manager's control block and restart loop
    manager,     \* the Manager object: agent control blocks, client, executors
    backend      \* the cloud exchange's mailbox backend: mailboxes with owners

xvars == <<behaviors, client, recvWait, ret, recvLog>>
hvars == <<handles, bound_handles, futures, future, future_value, future_value, call, requests,
           listener,
           inflight, seen, respLog, respCount, processed, dropped>>
mvars == <<manager, backend>>
lvars == <<agent, runner, mvars>>
vars == <<queues, nextTag, xvars, hvars, lvars>>

Message(tag, src, dest, label, body, arg) ==
    [tag |-> tag, src |-> src, dest |-> dest, label |-> label,
     body |-> body, arg |-> arg]

(***************************************************************************)
(* academy.exchange.queue.Queue (not among the sources): a FIFO with close *)
(* support.  put() on a closed queue raises QueueClosedError; get() returns*)
(* the oldest message, raises QueueClosedError once the queue is closed,   *)
(* and otherwise blocks.                                                   *)
(***************************************************************************)
QueueClosed(q) == q.closed

QueuePut(q, m) ==
    IF q.closed THEN [err |-> "QueueClosedError", queue |-> q]
    ELSE [err |-> "none", queue |-> [q EXCEPT !.items = Append(@, m)]]

\* A get() that a close() does not wake up.
QueueCanGetItems(q) == Len(q.items) > 0

QueueCanGet(q) == q.closed \/ Len(q.items) > 0

QueueGet(q) ==
    IF q.closed THEN [err |-> "QueueClosedError", msg |-> <<>>, queue |-> q]
    ELSE [err |-> "none", msg |-> <<Head(q.items)>>,
          queue |-> [q EXCEPT !.items = Tail(@)]]

QueueClose(q) == [q EXCEPT !.closed = TRUE]

\* MailboxStatus of an id, as the exchange table shows it.
status(uid) ==
    IF ~queues[uid].exists THEN "MISSING"
    ELSE IF QueueClosed(queues[uid]) THEN "TERMINATED"
    ELSE "ACTIVE"

RECURSIVE RemoveKey(_, _)
RemoveKey(seq, aid) ==
    IF seq = <<>> THEN <<>>
    ELSE IF Head(seq).aid = aid THEN RemoveKey(Tail(seq), aid)
    ELSE <<Head(seq)>> \o RemoveKey(Tail(seq), aid)

HasKey(seq, aid) == \E i \in 1..Len(seq) : seq[i].aid = aid

\* dict[aid] = behavior: an existing key keeps its place, a new key goes last.
SetKey(seq, aid, b) ==
    IF HasKey(seq, aid)
    THEN [i \in 1..Len(seq) |->
            IF seq[i].aid = aid THEN [aid |-> aid, type |-> b] ELSE seq[i]]
    ELSE Append(seq, [aid |-> aid, type |-> b])

(***************************************************************************)
(* BoundThreadExchangeClient.  The clients of the model are user clients   *)
(* bound with entity_id=None (a new ClientId with a new, open mailbox);    *)
(* binding to an existing id stops at line 94, which reads the local cid   *)
(* that branch never assigned, so no client ever holds an agent's mailbox. *)
(***************************************************************************)

register_agent(c, aid, b) ==
    /\ client[c] = "bound"
    /\ IF ~queues[aid].exists \/ QueueClosed(queues[aid])
       THEN /\ queues' = [queues EXCEPT ![aid] = EmptyQueue]
            /\ behaviors' = SetKey(behaviors, aid, b)
       ELSE UNCHANGED <<queues, behaviors>>
    /\ UNCHANGED <<client, recvWait, ret, nextTag, recvLog>>
    /\ UNCHANGED <<hvars, lvars>>

\* A terminate(uid) that closes the mailbox whether or not it exists.
TerminatedOrCreated(qs, uid) ==
    [qs EXCEPT ![uid] = QueueClose(IF @.exists THEN @ ELSE EmptyQueue)]

\* The effect of terminate(uid) on the exchange tables.
Terminated(qs, uid) ==
    IF qs[uid].exists /\ ~QueueClosed(qs[uid])
    THEN [qs EXCEPT ![uid] = QueueClose(@)]
    ELSE qs

TerminatedBehaviors(qs, bs, uid) ==
    IF qs[uid].exists /\ ~QueueClosed(qs[uid]) /\ uid \notin ClientIds
    THEN RemoveKey(bs, uid)
    ELSE bs

terminate(c, uid) ==
    /\ client[c] = "bound"
    /\ queues' = Terminated(queues, uid)
    /\ behaviors' = TerminatedBehaviors(queues, behaviors, uid)
    /\ UNCHANGED <<client, recvWait, ret, nextTag, recvLog>>
    /\ UNCHANGED <<hvars, lvars>>

\* Variants of send() that differ from the source in one step.
ExchangeSendFront(qs, uid, m) ==
    IF ~qs[uid].exists THEN [err |-> "BadEntityIdError", queues |-> qs]
    ELSE IF QueueClosed(qs[uid]) THEN [err |-> "MailboxClosedError", queues |-> qs]
    ELSE [err |-> "none", queues |-> [qs EXCEPT ![uid].items = <<m>> \o @]]

ExchangeSendSetDefault(qs, uid, m) ==
    LET q == IF qs[uid].exists THEN qs[uid] ELSE EmptyQueue
        r == QueuePut(q, m)
    IN IF r.err = "QueueClosedError"
       THEN [err |-> "MailboxClosedError", queues |-> qs]
       ELSE [err |-> "none", queues |-> [qs EXCEPT ![uid] = r.queue]]

\* send(uid, message) against a mailbox table: the error raised and the table after.
ExchangeSend(qs, uid, m) ==
    IF ~qs[uid].exists THEN [err |-> "BadEntityIdError", queues |-> qs]
    ELSE LET r == QueuePut(qs[uid], m) IN
         IF r.err = "QueueClosedError"
         THEN [err |-> "MailboxClosedError", queues |-> qs]
         ELSE [err |-> "none", queues |-> [qs EXCEPT ![uid] = r.queue]]

send(c, uid) ==
    /\ client[c] = "bound"
    /\ nextTag <= MaxTags
    /\ LET m == Message(nextTag, c, uid, NoLabel, "PingRequest", "none")
           r == ExchangeSend(queues, uid, m)
       IN /\ queues' = r.queues
          /\ ret' = [ret EXCEPT ![c] = r.err]
    /\ nextTag' = nextTag + 1
    /\ UNCHANGED <<behaviors, client, recvWait, recvLog>>
    /\ UNCHANGED <<hvars, lvars>>

\* A caller enters recv() (timeout=None): it returns in recv_return.
recv_call(c) ==
    /\ client[c] = "bound"
    /\ ~recvWait[c]
    /\ recvWait' = [recvWait EXCEPT ![c] = TRUE]
    /\ UNCHANGED <<queues, behaviors, client, ret, nextTag, recvLog>>
    /\ UNCHANGED <<hvars, lvars>>

\* Variants of recv() that differ from the source in one step.
ExchangeRecvPeek(q) ==
    IF QueueClosed(q) THEN [err |-> "MailboxClosedError", msg |-> <<>>, queue |-> q]
    ELSE [err |-> "none", msg |-> <<Head(q.items)>>, queue |-> q]

ExchangeRecvDrain(q) ==
    IF Len(q.items) > 0
    THEN [err |-> "none", msg |-> <<Head(q.items)>>,
          queue |-> [q EXCEPT !.items = Tail(@)]]
    ELSE [err |-> "MailboxClosedError", msg |-> <<>>, queue |-> q]

\* recv() on the client's mailbox: the error raised, the message and the queue after.
ExchangeRecv(q) ==
    LET r == QueueGet(q) IN
    IF r.err = "QueueClosedError"
    THEN [err |-> "MailboxClosedError", msg |-> <<>>, queue |-> q]
    ELSE r

recv_return(c) ==
    /\ recvWait[c]
    /\ QueueCanGet(queues[c])
    /\ LET r == ExchangeRecv(queues[c]) IN
       /\ queues' = [queues EXCEPT ![c] = r.queue]
       /\ recvLog' = [recvLog EXCEPT ![c] = @ \o r.msg]
       /\ ret' = [ret EXCEPT ![c] = r.err]
    /\ recvWait' = [recvWait EXCEPT ![c] = FALSE]
    /\ UNCHANGED <<behaviors, client, nextTag>>
    /\ UNCHANGED <<hvars, lvars>>

\* close(): terminate the own mailbox (no request handler), then close every queue.
close(c) ==
    /\ client[c] = "bound"
    /\ LET qs == Terminated(queues, c) IN
       queues' = [e \in Entities |->
                    IF qs[e].exists THEN QueueClose(qs[e]) ELSE qs[e]]
    /\ behaviors' = TerminatedBehaviors(queues, behaviors, c)
    /\ client' = [client EXCEPT ![c] = "closed"]
    /\ UNCHANGED <<recvWait, ret, nextTag, recvLog>>
    /\ UNCHANGED <<hvars, lvars>>

(***************************************************************************)
(* academy.agent.Agent (not among the sources): the object after           *)
(* construction, following the lifecycle of the specification and the      *)
(* agent tests.                                                            *)
(***************************************************************************)
Loops == {"bad1", "bad2"}      \* the @loop methods of the behavior
Configs == [terminate_on_success : BOOLEAN, terminate_on_error : BOOLEAN]
DefaultConfig == [terminate_on_success |-> TRUE, terminate_on_error |-> TRUE]
NoError == [raised |-> "none", exceptions |-> <<>>]

\* Agent(behavior, config=config): nothing started, nothing recorded.
AgentNew(config) ==
    [state |-> "INITIALIZED",
     config |-> config,
     on_setup_calls |-> 0,          \* invocations of behavior.on_setup()
     on_shutdown_calls |-> 0,       \* invocations of behavior.on_shutdown()
     shutdown_event |-> FALSE,      \* _shutdown_agent
     expected_shutdown |-> FALSE,   \* _expected_shutdown
     terminate_override |-> "unset", \* terminate of the ShutdownRequest
     loops |-> [l \in Loops |-> "idle"],
     loop_errors |-> <<>>,          \* the exceptions recorded, by loop
     start_calls |-> 0,
     shutdown_calls |-> 0,
     start_raised |-> "none",       \* what the last start() raised
     shutdown_raised |-> NoError]   \* what shutdown() raised

\* No Agent object was constructed.
NoAgent == [state |-> "none"]

\* The agent of the handle specifications: started and running.
AgentRunning ==
    [AgentNew(DefaultConfig) EXCEPT !.state = "RUNNING", !.on_setup_calls = 1,
                                    !.start_calls = 1,
                                    !.loops = [l \in Loops |-> "running"]]

NoWait == [called |-> FALSE, known |-> TRUE, suppress |-> FALSE,
           pending |-> FALSE, raised |-> "none"]

\* Launcher(executor, max_restarts=max) / Manager(..., max_retries=max) after
\* launch() of an agent whose config has terminate_on_error = toe: the task
\* running _run_agent / _run_agent_in_executor exists and has not run yet.
RunnerNew(kind, max, toe) ==
    [kind |-> kind,
     max_restarts |-> max,
     user_terminate_on_error |-> toe,
     run_count |-> 0,
     retries |-> max,
     phase |-> "loop",              \* "loop" | "running" | "done"
     terminate_on_error |-> toe,    \* of the config the current attempt runs with
     attempts |-> <<>>,             \* per attempt: config used and outcome
     task |-> "pending",            \* acb.task: pending | ok | raised | cancelled
     wait |-> NoWait]               \* the last wait(): its arguments and result

\* No agent was launched.
RunnerIdle == [phase |-> "idle"]

\* No Manager was constructed; no cloud backend is in use.
NoManager == [closed |-> FALSE]
NoBackend == [mailboxes |-> <<>>]

\* No handle exists, no call was made, the listeners run.
HandleIdle ==
    /\ handles = <<>>
    /\ bound_handles = [c \in ClientIds |-> {}]
    /\ futures = [h \in HandleIds |-> {}]
    /\ future = [t \in Tags |-> "none"]
    /\ future_value = [t \in Tags |-> "none"]
    /\ call = [t \in Tags |-> "none"]
    /\ requests = <<>>
    /\ listener = [c \in ClientIds |-> "running"]
    /\ inflight = {}
    /\ seen = {}
    /\ respLog = {}
    /\ respCount = [t \in Tags |-> 0]
    /\ processed = {}
    /\ dropped = {}

Init ==
    /\ queues = [e \in Entities |-> IF e \in ClientIds THEN EmptyQueue ELSE NoQueue]
    /\ behaviors = <<>>
    /\ client = [c \in ClientIds |-> "bound"]
    /\ recvWait = [c \in ClientIds |-> FALSE]
    /\ ret = [c \in ClientIds |-> "none"]
    /\ nextTag = 1
    /\ recvLog = [e \in Entities |-> <<>>]
    /\ HandleIdle
    /\ agent = NoAgent
    /\ runner = RunnerIdle
    /\ manager = NoManager
    /\ backend = NoBackend

Next ==
    \/ \E c \in ClientIds, aid \in AgentIds, b \in Behaviors : register_agent(c, aid, b)
    \/ \E c \in ClientIds, uid \in Entities : terminate(c, uid)
    \/ \E c \in ClientIds, uid \in Entities : send(c, uid)
    \/ \E c \in ClientIds : recv_call(c)
    \/ \E c \in ClientIds : recv_return(c)
    \/ \E c \in ClientIds : close(c)

Spec == Init /\ [][Next]_vars

FairSpec == Spec /\ \A c \in ClientIds : WF_vars(recv_return(c))

(***************************************************************************)
(* Messages between handles, listeners and the agent.                      *)
(***************************************************************************)
RequestBodies == {"ActionRequest", "PingRequest"}
\* A test that takes every message for a request.
IsAnyMessage(m) == TRUE

IsRequest(m) == m.body \in RequestBodies

\* Message.create_response / Message.error of a request: the same tag and
\* label, src and dest swapped.
Response(request, body, arg) ==
    Message(request.tag, request.dest, request.src, request.label, body, arg)

\* A variant of the listener's reply that keeps the request's src and dest.
HandleRequestReplyUnswapped(c, request) ==
    Message(request.tag, request.src, request.dest, request.label,
            "ErrorResponse", "TypeError")

\* _handle_request of a client without request handler: the error reply.
HandleRequestReply(c, request) ==
    Response(request, "ErrorResponse", "TypeError")

\* A variant of the listener's lookup that goes by the responding agent.
LookupHandleByAgent(c, m) ==
    {h \in bound_handles[c] : handles[h].agent_id = m.src}

\* _message_handler: the handles a response is passed to (bound_handles[label]).
LookupHandle(c, m) ==
    IF m.label \in bound_handles[c] THEN {m.label} ELSE {}

\* A response handling that hands the caller a generic error in place of the
\* exception the response carries.
ResponseValueWrapped(m) ==
    IF m.body = "ErrorResponse" THEN "RemoteError"
    ELSE IF m.body = "ActionResponse" THEN m.arg
    ELSE "none"

\* What _process_response puts into the future: body.get_result(),
\* body.exception, or None for a SuccessResponse.
ResponseValue(m) ==
    IF m.body \in {"ActionResponse", "ErrorResponse"} THEN m.arg ELSE "none"

\* RemoteHandle._process_response on a handle whose _futures has the keys
\* slots, fut being the state of the future stored under the response's tag.
ProcessResponse(slots, fut, m) ==
    IF m.tag \notin slots
    THEN [slots |-> slots, fut |-> fut, raised |-> "none"]
    ELSE IF fut = "cancelled"
    THEN [slots |-> slots \ {m.tag}, fut |-> fut, raised |-> "none"]
    ELSE IF fut # "pending"
    THEN [slots |-> slots \ {m.tag}, fut |-> fut, raised |-> "InvalidStateError"]
    ELSE IF m.body \in {"ActionResponse", "SuccessResponse"}
    THEN [slots |-> slots \ {m.tag}, fut |-> "result", raised |-> "none"]
    ELSE IF m.body = "ErrorResponse"
    THEN [slots |-> slots \ {m.tag}, fut |-> "exception", raised |-> "none"]
    ELSE [slots |-> slots \ {m.tag}, fut |-> fut, raised |-> "AssertionError"]

(***************************************************************************)
(* Exchange client: handles and the listener thread                        *)
(***************************************************************************)
get_handle(c, aid) ==
    /\ client[c] = "bound"
    /\ Len(handles) < Cardinality(HandleIds)
    /\ handles' = Append(handles, [owner |-> c, agent_id |-> aid])
    /\ bound_handles' = [bound_handles EXCEPT ![c] = @ \cup {Len(handles) + 1}]
    /\ UNCHANGED <<queues, nextTag, xvars, lvars, futures, future, future_value, call, requests,
                   listener, inflight, seen, respLog, respCount, processed, dropped>>

\* A call that records its pending slot only after the send.
RequestCallSlotAfterSend(h, body, arg) ==
    /\ h \in 1..Len(handles)
    /\ nextTag <= MaxCalls
    /\ requests' = Append(requests,
            Message(nextTag, handles[h].owner, handles[h].agent_id, h, body, arg))
    /\ future' = [future EXCEPT ![nextTag] = "pending"]
    /\ call' = [call EXCEPT ![nextTag] = "sending"]
    /\ nextTag' = nextTag + 1
    /\ UNCHANGED <<queues, xvars, lvars, handles, bound_handles, futures, future_value,
                   listener, inflight, seen, respLog, respCount, processed, dropped>>

\* action() / ping() up to the await of exchange.send(request).
RequestCall(h, body, arg) ==
    /\ h \in 1..Len(handles)
    /\ nextTag <= MaxCalls
    /\ requests' = Append(requests,
            Message(nextTag, handles[h].owner, handles[h].agent_id, h, body, arg))
    /\ future' = [future EXCEPT ![nextTag] = "pending"]
    /\ futures' = [futures EXCEPT ![h] = @ \cup {nextTag}]
    /\ call' = [call EXCEPT ![nextTag] = "sending"]
    /\ nextTag' = nextTag + 1
    /\ UNCHANGED <<queues, xvars, lvars, handles, bound_handles, future_value,
                   listener, inflight, seen, respLog, respCount, processed, dropped>>

action(h, name) ==
    /\ name \in ActionNames
    /\ RequestCall(h, "ActionRequest", name)

ping(h) ==
    /\ h \in HandleIds
    /\ RequestCall(h, "PingRequest", "none")

\* await self.exchange.send(request) completes or raises.
send_done(t) ==
    /\ call[t] = "sending"
    /\ LET r == ExchangeSend(queues, requests[t].dest, requests[t]) IN
       /\ queues' = r.queues
       /\ call' = [call EXCEPT ![t] = IF r.err = "none" THEN "waiting"
                                      ELSE "raised_send"]
    /\ UNCHANGED <<nextTag, xvars, lvars, handles, bound_handles, futures, future, future_value,
                   requests, listener, inflight, seen, respLog, respCount,
                   processed, dropped>>

\* await future returns the result or raises the remote exception; ping()
\* only waits for the future to be done and never reads it.
await_done(t) ==
    /\ call[t] = "waiting"
    /\ future[t] \in {"result", "exception"}
    /\ call' = [call EXCEPT ![t] =
          IF future[t] = "result" \/ requests[t].body = "PingRequest"
          THEN "returned" ELSE "raised_remote"]
    /\ UNCHANGED <<queues, nextTag, xvars, lvars, handles, bound_handles, futures,
                   future, future_value, requests, listener, inflight, seen, respLog,
                   respCount, processed, dropped>>

\* The task awaiting action() is cancelled: CancelledError leaves action() at
\* its current await.  During the send the request may or may not have gone
\* out; during the wait a still pending future is cancelled with the task.
cancel(t) ==
    /\ call[t] \in {"sending", "waiting"}
    /\ requests[t].body = "ActionRequest"
    /\ \/ /\ call[t] = "sending"
          /\ \E delivered \in BOOLEAN :
                queues' = IF delivered
                          THEN ExchangeSend(queues, requests[t].dest, requests[t]).queues
                          ELSE queues
          /\ UNCHANGED future
       \/ /\ call[t] = "waiting"
          /\ future' = [future EXCEPT ![t] = IF @ = "pending" THEN "cancelled" ELSE @]
          /\ UNCHANGED queues
    /\ call' = [call EXCEPT ![t] = "cancelled"]
    /\ UNCHANGED <<nextTag, xvars, lvars, handles, bound_handles, futures,
                   future_value, requests,
                   listener, inflight, seen, respLog, respCount, processed, dropped>>

\* One turn of listen(): recv() a message and run _message_handler on it.  A
\* MailboxClosedError ends the loop quietly, any other exception ends the thread.
listen(c) ==
    /\ listener[c] = "running"
    /\ QueueCanGet(queues[c])
    /\ LET r == ExchangeRecv(queues[c]) IN
       IF r.err # "none"
       THEN /\ listener' = [listener EXCEPT ![c] = "exited"]
            /\ UNCHANGED <<queues, futures, future, future_value, respLog, respCount,
                           processed, dropped>>
       ELSE LET m == r.msg[1]
                qs == [queues EXCEPT ![c] = r.queue]
            IN IF IsRequest(m)
               THEN LET reply == HandleRequestReply(c, m)
                        s == ExchangeSend(qs, reply.dest, reply)
                    IN /\ queues' = s.queues
                       /\ respLog' = respLog \cup {reply}
                       /\ respCount' = [respCount EXCEPT ![m.tag] = @ + 1]
                       /\ listener' = [listener EXCEPT ![c] =
                              IF s.err = "none" THEN "running"
                              ELSE IF s.err = "MailboxClosedError" THEN "exited"
                              ELSE "crashed"]
                       /\ UNCHANGED <<futures, future, future_value, processed, dropped>>
               ELSE LET hs == LookupHandle(c, m)
                        res == [h \in hs |->
                                  ProcessResponse(futures[h], future[m.tag], m)]
                        set == {res[h].fut : h \in hs} \ {future[m.tag]}
                    IN /\ queues' = qs
                       /\ futures' = [h \in HandleIds |->
                              IF h \in hs THEN res[h].slots ELSE futures[h]]
                       /\ future' = [future EXCEPT ![m.tag] =
                              IF set = {} THEN @ ELSE CHOOSE f \in set : TRUE]
                       /\ future_value' = [future_value EXCEPT ![m.tag] =
                              IF set = {} THEN @ ELSE ResponseValue(m)]
                       /\ processed' = processed \cup {<<h, m.tag>> : h \in hs}
                       /\ dropped' = IF hs = {} THEN dropped \cup {m.tag} ELSE dropped
                       /\ listener' = [listener EXCEPT ![c] =
                              IF \E h \in hs : res[h].raised # "none"
                              THEN "crashed" ELSE "running"]
                       /\ UNCHANGED <<respLog, respCount>>
    /\ UNCHANGED <<nextTag, xvars, lvars, handles, bound_handles, call, requests,
                   inflight, seen>>

\* client.send(message) of a request the caller built with Message.create.
raw_send(c, dest, body) ==
    /\ client[c] = "bound"
    /\ dest # c
    /\ nextTag <= MaxCalls
    /\ LET m == Message(nextTag, c, dest, NoLabel, body[1], body[2]) IN
       /\ requests' = Append(requests, m)
       /\ queues' = ExchangeSend(queues, dest, m).queues
    /\ nextTag' = nextTag + 1
    /\ UNCHANGED <<xvars, lvars, handles, bound_handles, futures, future, future_value, call, listener,
                   inflight, seen, respLog, respCount, processed, dropped>>

(***************************************************************************)
(* The agent runtime (academy.agent is not among the sources; it follows   *)
(* the request dispatch of the specification): a Ping is answered at once  *)
(* with a Success or Ping response, an Action whose method is missing with *)
(* Error(AttributeError), any other Action runs as a task of its own and   *)
(* is answered with ActionResult or Error when the method ends.            *)
(***************************************************************************)
RunningAgent == "a1"

\* A dispatch that starts a task for whatever arrives.
AgentDispatchAllTasks(request) == {}

\* The replies the dispatch may send at once; none when a task is started.
AgentDispatch(request) ==
    IF request.body = "PingRequest"
    THEN {<<"SuccessResponse", "none">>, <<"PingResponse", "none">>}
    ELSE IF request.arg = "null" THEN {<<"ErrorResponse", "AttributeError">>}
    ELSE {}

ActionOutcome(request) ==
    IF request.arg = "ok" THEN <<"ActionResponse", "value">>
    ELSE <<"ErrorResponse", "Exception">>

AgentReply(qs, request, out) ==
    LET reply == Response(request, out[1], out[2]) IN
    /\ queues' = ExchangeSend(qs, reply.dest, reply).queues
    /\ respLog' = respLog \cup {reply}
    /\ respCount' = [respCount EXCEPT ![request.tag] = @ + 1]

agent_recv ==
    /\ ~QueueClosed(queues[RunningAgent])
    /\ Len(queues[RunningAgent].items) > 0
    /\ LET r == QueueGet(queues[RunningAgent])
           m == r.msg[1]
           qs == [queues EXCEPT ![RunningAgent] = r.queue]
       IN /\ seen' = seen \cup {m.tag}
          /\ IF AgentDispatch(m) = {}
             THEN /\ inflight' = inflight \cup {m.tag}
                  /\ queues' = qs
                  /\ UNCHANGED <<respLog, respCount>>
             ELSE /\ \E out \in AgentDispatch(m) : AgentReply(qs, m, out)
                  /\ UNCHANGED inflight
    /\ UNCHANGED <<nextTag, xvars, lvars, handles, bound_handles, futures, future, future_value, call,
                   requests, listener, processed, dropped>>

agent_finish(t) ==
    /\ t \in inflight
    /\ inflight' = inflight \ {t}
    /\ AgentReply(queues, requests[t], ActionOutcome(requests[t]))
    /\ UNCHANGED <<nextTag, xvars, lvars, handles, bound_handles, futures, future, future_value, call,
                   requests, listener, seen, processed, dropped>>

\* Two bound user clients and the registered, running agent a1.
InitHandle ==
    /\ queues = [e \in Entities |-> EmptyQueue]
    /\ behaviors = <<[aid |-> RunningAgent, type |-> "EmptyBehavior"]>>
    /\ client = [c \in ClientIds |-> "bound"]
    /\ recvWait = [c \in ClientIds |-> FALSE]
    /\ ret = [c \in ClientIds |-> "none"]
    /\ nextTag = 1
    /\ recvLog = [e \in Entities |-> <<>>]
    /\ HandleIdle
    /\ agent = AgentRunning
    /\ runner = RunnerIdle
    /\ manager = NoManager
    /\ backend = NoBackend

NextHandle ==
    \/ \E c \in Callers, aid \in AgentIds : get_handle(c, aid)
    \/ \E h \in HandleIds, name \in ActionNames \ {"null"} : action(h, name)
    \/ \E h \in HandleIds : ping(h)
    \/ \E t \in Tags : send_done(t)
    \/ \E t \in Tags : await_done(t)
    \/ \E t \in Tags : cancel(t)
    \/ \E c \in ClientIds : listen(c)
    \/ \E c \in Callers, dest \in ClientIds :
          raw_send(c, dest, <<"PingRequest", "none">>)
    \/ agent_recv
    \/ \E t \in Tags : agent_finish(t)

SpecHandle == InitHandle /\ [][NextHandle]_vars

\* Requests of every kind sent to the running agent, and its replies.
NextAgent ==
    \/ \E c \in Callers, body \in Requests : raw_send(c, RunningAgent, body)
    \/ agent_recv
    \/ \E t \in Tags : agent_finish(t)
    \/ \E c \in ClientIds : listen(c)

SpecAgent == InitHandle /\ [][NextAgent]_vars

FairSpecAgent ==
    SpecAgent /\ WF_vars(agent_recv) /\ \A t \in Tags : WF_vars(agent_finish(t))

\* The messages a handle passed to exchange.send for the call with tag t:
\* action() and ping() send the request and nothing else.
HandleSent(t) == IF call[t] = "none" THEN <<>> ELSE <<requests[t].body>>

(***************************************************************************)
(* Properties of the thread exchange (Spec, FairSpec)                      *)
(***************************************************************************)

C2_StatusOnlyMovesForward ==
    [][\A e \in Entities :
          \/ status(e)' = status(e)
          \/ status(e) = "MISSING" /\ status(e)' = "ACTIVE"
          \/ status(e) = "ACTIVE" /\ status(e)' = "TERMINATED"]_vars

C4_FailedSendChangesNothing ==
    [][\A c \in ClientIds, uid \in Entities :
          (send(c, uid) /\ status(uid) # "ACTIVE") =>
              /\ queues' = queues
              /\ behaviors' = behaviors
              /\ ret'[c] = IF status(uid) = "MISSING" THEN "BadEntityIdError"
                           ELSE "MailboxClosedError"]_vars

\* One client's send hit a missing mailbox, the other's a terminated one
\* (a recv() on the client's own open mailbox cannot raise MailboxClosedError).
C4_Witness ==
    /\ ret["c1"] = "BadEntityIdError"
    /\ ret["c2"] = "MailboxClosedError"
    /\ status("c2") = "ACTIVE"

\* C5: once a mailbox is terminated, a recv() pending on it and any later
\* recv() on it end with MailboxClosedError: they neither block forever nor
\* return a message.
C5_RecvFailsAfterTerminate ==
    /\ \A c \in ClientIds :
          (recvWait[c] /\ status(c) = "TERMINATED")
              ~> (~recvWait[c] /\ ret[c] = "MailboxClosedError")
    /\ [][\A c \in ClientIds :
            (recv_return(c) /\ status(c) = "TERMINATED") =>
                /\ recvLog' = recvLog
                /\ ret'[c] = "MailboxClosedError"]_vars

\* c1's recv() raised on its terminated mailbox while a message was still
\* queued there (the only send so far was c2's, so the error is recv's).
C5_Witness ==
    /\ status("c1") = "TERMINATED"
    /\ ~recvWait["c1"]
    /\ ret["c1"] = "MailboxClosedError"
    /\ nextTag = 2
    /\ Len(queues["c1"].items) = 1

(***************************************************************************)
(* Properties of handles, listeners and the agent (SpecHandle, SpecAgent)  *)
(***************************************************************************)
QueuedMessages ==
    UNION {{queues[e].items[i] : i \in 1..Len(queues[e].items)} : e \in Entities}

\* C6: every response carries the tag and the label of exactly one request
\* sent before it, with that request's src and dest swapped.
C6_ResponseMatchesRequest ==
    \A m \in respLog \cup {q \in QueuedMessages : ~IsRequest(q)} :
        /\ Cardinality({t \in 1..Len(requests) : requests[t].tag = m.tag}) = 1
        /\ m.label = requests[m.tag].label
        /\ m.src = requests[m.tag].dest
        /\ m.dest = requests[m.tag].src

\* The agent answered a handle's request and a user client answered a request.
C6_Witness ==
    /\ \E m \in respLog : m.src = RunningAgent /\ m.label \in HandleIds
    /\ \E m \in respLog : m.src \in ClientIds

\* C7: the listener passes a response only to the handle whose handle_id is
\* the response's label; with no such handle the response is dropped and no
\* handle's pending slots change.
C7_ResponseOnlyToLabelledHandle ==
    [][\A c \in ClientIds :
          (/\ listen(c)
           /\ ~QueueClosed(queues[c])
           /\ ~IsRequest(Head(queues[c].items)))
          => LET m == Head(queues[c].items) IN
             /\ (processed' \ processed) \subseteq {<<m.label, m.tag>>}
             /\ \A h \in HandleIds \ {m.label} : futures'[h] = futures[h]
             /\ m.label \notin bound_handles[c] =>
                   /\ futures' = futures
                   /\ future' = future
                   /\ processed' = processed
                   /\ m.tag \in dropped']_vars

\* With two handles to the same agent on one client, a response completed the
\* call of the handle it is labelled with, and another response was dropped.
C7_Witness ==
    /\ \E p \in processed : \E h \in bound_handles[handles[p[1]].owner] \ {p[1]} :
          /\ handles[h].agent_id = handles[p[1]].agent_id
          /\ future[p[2]] \in {"result", "exception"}
    /\ dropped # {}

C9_ProcessResponseNeverRaises ==
    /\ \A c \in ClientIds : listener[c] # "crashed"
    /\ \A h \in HandleIds : \A t \in futures[h] : future[t] \in {"pending", "cancelled"}

\* C10: when the awaiter of an action is cancelled, the last message the
\* handle sent for that action is a CancelRequest.
C10_CancelSendsCancelRequest ==
    \A t \in 1..Len(requests) :
        call[t] = "cancelled" =>
            /\ HandleSent(t) # <<>>
            /\ HandleSent(t)[Len(HandleSent(t))] = "CancelRequest"

\* The request with tag t or a response to it is still on its way: queued in
\* a mailbox or running as a task of the agent.
TagInFlight(t) ==
    \/ t \in inflight
    \/ \E m \in QueuedMessages : m.tag = t

\* C11: cancelling the awaiter of an action leaves no dangling slot for the
\* request's tag in the handle: once nothing of the cancelled request is on
\* its way any more, no handle keeps its tag in _futures; a response that
\* still arrives is dropped without error.
C11_CancelLeavesNoDanglingSlot ==
    \A t \in 1..Len(requests) :
        (call[t] = "cancelled" /\ ~TagInFlight(t)) =>
            \A h \in HandleIds : t \notin futures[h]

(***************************************************************************)
(* Termination of the agent's mailbox while calls are under way            *)
(* (SpecTerminate, FairSpecTerminate)                                      *)
(***************************************************************************)
\* A caller's handles and actions, the running agent, and terminate(a1)
\* issued by the caller's client at any moment.
NextTerminate ==
    \/ \E c \in Callers, aid \in AgentIds : get_handle(c, aid)
    \/ \E h \in HandleIds, name \in ActionNames \ {"null"} : action(h, name)
    \/ \E t \in Tags : send_done(t)
    \/ \E t \in Tags : await_done(t)
    \/ \E c \in Callers : listen(c)
    \/ agent_recv
    \/ \E t \in Tags : agent_finish(t)
    \/ \E c \in Callers : terminate(c, RunningAgent)

SpecTerminate == InitHandle /\ [][NextTerminate]_vars

\* The event loop runs every task that can run: the pending send and the
\* await of each call, the listener, the agent's listener and action tasks.
FairSpecTerminate ==
    /\ SpecTerminate
    /\ \A t \in Tags : WF_vars(send_done(t)) /\ WF_vars(await_done(t))
    /\ \A t \in Tags : WF_vars(agent_finish(t))
    /\ \A c \in Callers : WF_vars(listen(c))
    /\ WF_vars(agent_recv)

\* C12: when the agent's mailbox is terminated while a caller awaits the
\* response of an action, the caller's await eventually ends (with an error
\* such as MailboxTerminated or AgentTerminated) instead of waiting forever.
C12_NoHangOnTermination ==
    \A t \in Tags :
        (call[t] = "waiting" /\ status(RunningAgent) = "TERMINATED")
            ~> (call[t] # "waiting")

\* The messages mailbox e gained in the step, oldest first.
Gained(e) ==
    SubSeq(queues'[e].items, Len(queues[e].items) + 1, Len(queues'[e].items))

\* C13: terminating an agent's mailbox routes exactly one
\* Error(MailboxTerminated) response to the sender of every request still
\* enqueued in it, and sends nothing for an enqueued response.
C13_TerminateAnswersQueuedRequests ==
    [][\A c \in Callers :
          (terminate(c, RunningAgent) /\ status(RunningAgent) = "ACTIVE") =>
              \A i \in 1..Len(queues[RunningAgent].items) :
                  LET m == queues[RunningAgent].items[i]
                      sent == {<<e, j>> \in Entities \X (1..MaxCalls) :
                                  /\ j <= Len(Gained(e))
                                  /\ Gained(e)[j].tag = m.tag}
                  IN IF IsRequest(m)
                     THEN /\ Cardinality(sent) = 1
                          /\ \A s \in sent :
                                /\ s[1] = m.src
                                /\ Gained(s[1])[s[2]] =
                                      Response(m, "ErrorResponse", "MailboxTerminatedError")
                     ELSE sent = {}]_vars

(***************************************************************************)
(* The agent's lifecycle (SpecLifecycle): start(), shutdown(), the loops   *)
(* and the handler of a ShutdownRequest, after the specification           *)
(* (academy.agent is not among the sources).                               *)
(***************************************************************************)
Rank(state) ==
    CASE state = "INITIALIZED" -> 0
      [] state = "STARTING" -> 1
      [] state = "RUNNING" -> 2
      [] state = "TERMINATING" -> 3
      [] state = "TERMINATED" -> 4

\* A start() that sets an agent up whenever it is not running.
AgentStartAgain(a) ==
    IF a.state \in {"STARTING", "RUNNING"}
    THEN [a EXCEPT !.start_raised = "none"]
    ELSE [a EXCEPT !.state = "STARTING", !.on_setup_calls = @ + 1,
                   !.start_raised = "none"]

\* start(): RuntimeError once shut down, nothing when started already,
\* otherwise open the exchange client and invoke on_setup().
AgentStart(a) ==
    IF a.state \in {"TERMINATING", "TERMINATED"}
    THEN [a EXCEPT !.start_raised = "RuntimeError"]
    ELSE IF a.state \in {"STARTING", "RUNNING"}
    THEN [a EXCEPT !.start_raised = "none"]
    ELSE [a EXCEPT !.state = "STARTING", !.on_setup_calls = @ + 1,
                   !.start_raised = "none"]

\* An on_shutdown() that is invoked whatever happened before.
OnShutdownAlways(a) == a.on_shutdown_calls + 1

\* on_shutdown() is invoked only on an agent that was set up.
OnShutdown(a) ==
    IF a.on_setup_calls > 0 THEN a.on_shutdown_calls + 1 ELSE a.on_shutdown_calls

\* A termination decision that looks at the configured policy only.
TerminateDecisionPolicyOnly(a) ==
    IF a.expected_shutdown THEN a.config.terminate_on_success
    ELSE a.config.terminate_on_error

\* Whether shutdown terminates the mailbox: the ShutdownRequest's terminate
\* when set, else terminate_on_success / terminate_on_error of the config.
TerminateDecision(a) ==
    IF a.terminate_override # "unset" THEN a.terminate_override = "true"
    ELSE IF a.expected_shutdown THEN a.config.terminate_on_success
    ELSE a.config.terminate_on_error

\* An aggregation that surfaces the first recorded exception only.
AggregateFirstError(errs) ==
    IF errs = <<>> THEN NoError
    ELSE [raised |-> "ExceptionGroup", exceptions |-> <<errs[1]>>]

\* The loop exceptions raised by shutdown() / run() as one exception group.
AggregateErrors(errs) ==
    IF errs = <<>> THEN NoError
    ELSE [raised |-> "ExceptionGroup", exceptions |-> errs]

agent_start ==
    /\ agent.start_calls < MaxApiCalls
    /\ agent' = [AgentStart(agent) EXCEPT !.start_calls = @ + 1]
    /\ UNCHANGED <<queues, nextTag, xvars, hvars, runner, mvars>>

\* start() goes on: one task per loop and the request dispatch are launched.
agent_started ==
    /\ agent.state = "STARTING"
    /\ agent' = [agent EXCEPT !.state = "RUNNING",
                              !.loops = [l \in Loops |-> "running"]]
    /\ UNCHANGED <<queues, nextTag, xvars, hvars, runner, mvars>>

\* A loop raises: the exception is recorded and the shutdown event is set.
loop_raise(l) ==
    /\ agent.loops[l] = "running"
    /\ agent' = [agent EXCEPT !.loops[l] = "raised",
                              !.loop_errors = Append(@, l),
                              !.shutdown_event = TRUE]
    /\ UNCHANGED <<queues, nextTag, xvars, hvars, runner, mvars>>

\* A loop returns once the shutdown event is set.
loop_return(l) ==
    /\ agent.loops[l] = "running"
    /\ agent.shutdown_event
    /\ agent' = [agent EXCEPT !.loops[l] = "done"]
    /\ UNCHANGED <<queues, nextTag, xvars, hvars, runner, mvars>>

\* The dispatch handles a ShutdownRequest(terminate).
agent_shutdown_request(term) ==
    /\ agent.state = "RUNNING"
    /\ ~agent.shutdown_event
    /\ agent' = [agent EXCEPT !.shutdown_event = TRUE,
                              !.expected_shutdown = TRUE,
                              !.terminate_override = term]
    /\ UNCHANGED <<queues, nextTag, xvars, hvars, runner, mvars>>

\* shutdown() is called (by run() or by the owner of the agent): nothing on
\* an agent that is shut down, no callback on one that never started.
agent_shutdown ==
    /\ agent.shutdown_calls < MaxApiCalls
    /\ agent.state # "STARTING"
    /\ agent' =
         IF agent.state \in {"TERMINATING", "TERMINATED"}
         THEN [agent EXCEPT !.shutdown_calls = @ + 1]
         ELSE IF agent.state = "INITIALIZED"
         THEN [agent EXCEPT !.shutdown_calls = @ + 1,
                            !.state = "TERMINATED",
                            !.shutdown_event = TRUE,
                            !.on_shutdown_calls = OnShutdown(agent)]
         ELSE [agent EXCEPT !.shutdown_calls = @ + 1,
                            !.state = "TERMINATING",
                            !.shutdown_event = TRUE]
    /\ UNCHANGED <<queues, nextTag, xvars, hvars, runner, mvars>>

\* shutdown() goes on once every loop has ended: on_shutdown(), close the
\* exchange client, terminate the mailbox if so decided, raise the errors.
agent_shutdown_done ==
    /\ agent.state = "TERMINATING"
    /\ \A l \in Loops : agent.loops[l] # "running"
    /\ agent' = [agent EXCEPT !.state = "TERMINATED",
                              !.on_shutdown_calls = OnShutdown(agent),
                              !.shutdown_raised = AggregateErrors(agent.loop_errors)]
    /\ IF TerminateDecision(agent)
       THEN /\ queues' = Terminated(queues, RunningAgent)
            /\ behaviors' = TerminatedBehaviors(queues, behaviors, RunningAgent)
       ELSE UNCHANGED <<queues, behaviors>>
    /\ UNCHANGED <<nextTag, client, recvWait, ret, recvLog, hvars, runner, mvars>>

\* A registered agent that was constructed with any run configuration.
InitLifecycle ==
    /\ queues = [e \in Entities |-> EmptyQueue]
    /\ behaviors = <<[aid |-> RunningAgent, type |-> "EmptyBehavior"]>>
    /\ client = [c \in ClientIds |-> "bound"]
    /\ recvWait = [c \in ClientIds |-> FALSE]
    /\ ret = [c \in ClientIds |-> "none"]
    /\ nextTag = 1
    /\ recvLog = [e \in Entities |-> <<>>]
    /\ HandleIdle
    /\ \E config \in Configs : agent = AgentNew(config)
    /\ runner = RunnerIdle
    /\ manager = NoManager
    /\ backend = NoBackend

NextLifecycle ==
    \/ agent_start
    \/ agent_started
    \/ \E l \in Loops : loop_raise(l)
    \/ \E l \in Loops : loop_return(l)
    \/ \E term \in {"unset", "true", "false"} : agent_shutdown_request(term)
    \/ agent_shutdown
    \/ agent_shutdown_done

SpecLifecycle == InitLifecycle /\ [][NextLifecycle]_vars

\* C14: an Agent only moves forward through INITIALIZED, STARTING, RUNNING,
\* TERMINATING, TERMINATED and never back; start() on an agent that has been
\* shut down raises RuntimeError and leaves it shut down.
C14_LifecycleMonotonic ==
    [][/\ Rank(agent'.state) >= Rank(agent.state)
       /\ (agent_start /\ agent.state \in {"TERMINATING", "TERMINATED"}) =>
              /\ agent'.start_raised = "RuntimeError"
              /\ agent'.state = agent.state]_vars

\* An agent that ran and was shut down refused a start().
C14_Witness ==
    /\ agent.state = "TERMINATED"
    /\ agent.on_shutdown_calls = 1
    /\ agent.start_raised = "RuntimeError"

\* C15: over any sequence of start() / shutdown() calls on one agent,
\* on_setup() and on_shutdown() are each invoked at most once, and
\* on_shutdown() only on an agent that was started.
C15_StartShutdownIdempotent ==
    /\ agent.on_setup_calls <= 1
    /\ agent.on_shutdown_calls <= 1
    /\ agent.on_shutdown_calls <= agent.on_setup_calls

\* start() twice, then shutdown() twice: each callback ran once.
C15_Witness ==
    /\ agent.start_calls >= 2
    /\ agent.shutdown_calls >= 2
    /\ agent.start_raised = "none"
    /\ agent.on_setup_calls = 1
    /\ agent.on_shutdown_calls = 1

\* C16: after the agent exits because of a ShutdownRequest its mailbox is
\* TERMINATED if the request said terminate=true and ACTIVE if it said
\* terminate=false; with terminate unset the configured terminate_on_success
\* decides.
C16_ShutdownRequestTerminateFlag ==
    (agent.state = "TERMINATED" /\ agent.expected_shutdown) =>
        /\ agent.terminate_override = "true" => status(RunningAgent) = "TERMINATED"
        /\ agent.terminate_override = "false" => status(RunningAgent) = "ACTIVE"
        /\ (agent.terminate_override = "unset" /\ agent.loop_errors = <<>>) =>
              status(RunningAgent) =
                  IF agent.config.terminate_on_success THEN "TERMINATED" ELSE "ACTIVE"

\* A ShutdownRequest with terminate=false ended an agent whose configuration
\* says terminate_on_success: the mailbox is still ACTIVE.
C16_Witness ==
    /\ agent.state = "TERMINATED"
    /\ agent.expected_shutdown
    /\ agent.terminate_override = "false"
    /\ agent.config.terminate_on_success
    /\ status(RunningAgent) = "ACTIVE"

FailedLoops == {l \in Loops : agent.loops[l] = "raised"}

Outcomes == {"ok", "error", "cancelled"}

\* The agent of an attempt as its run ended: ended by a shutdown request
\* when the run returned, by a failure otherwise.
AttemptAgent(toe, outcome) ==
    [AgentNew([terminate_on_success |-> TRUE, terminate_on_error |-> toe])
        EXCEPT !.state = "TERMINATING", !.expected_shutdown = (outcome = "ok")]

\* The mailbox table after an attempt: the agent's shutdown terminates its
\* mailbox as its config says; a cancelled executor call leaves it alone.
AfterAttempt(qs, toe, outcome) ==
    IF outcome # "cancelled" /\ TerminateDecision(AttemptAgent(toe, outcome))
    THEN Terminated(qs, RunningAgent)
    ELSE qs

\* Launcher._run_agent, one turn of the while loop up to run_in_executor.
launcher_run_agent ==
    /\ runner.kind = "Launcher"
    /\ runner.phase = "loop"
    /\ runner.run_count <= runner.max_restarts
    /\ runner' = [runner EXCEPT
          !.run_count = @ + 1,
          !.terminate_on_error =
              IF runner.run_count + 1 < runner.max_restarts THEN FALSE
              ELSE runner.user_terminate_on_error,
          !.phase = "running"]
    /\ UNCHANGED <<queues, nextTag, xvars, hvars, agent, mvars>>

\* run_in_executor returns or raises.  The same Agent object is run in
\* every attempt: once it has been shut down its start() raises.
launcher_run_agent_done(outcome) ==
    /\ runner.kind = "Launcher"
    /\ runner.phase = "running"
    /\ outcome \in Outcomes
    /\ (outcome = "ok" /\ runner.run_count > 1) =>
          AgentStart(AttemptAgent(runner.terminate_on_error, "error")).start_raised = "none"
    /\ LET again == /\ outcome = "error"
                     /\ runner.run_count # runner.max_restarts
                     /\ runner.run_count <= runner.max_restarts
       IN runner' = [runner EXCEPT
             !.attempts = Append(@, [terminate_on_error |-> runner.terminate_on_error,
                                     outcome |-> outcome]),
             !.phase = IF again THEN "loop" ELSE "done",
             !.task = IF again THEN "pending" ELSE "ok"]
    /\ queues' = AfterAttempt(queues, runner.terminate_on_error, outcome)
    /\ UNCHANGED <<nextTag, xvars, hvars, agent, mvars>>

\* Manager._run_agent_in_executor, one turn of the loop up to run_in_executor.
manager_run_agent_in_executor ==
    /\ runner.kind = "Manager"
    /\ runner.phase = "loop"
    /\ runner' = [runner EXCEPT
          !.run_count = @ + 1,
          !.retries = IF @ > 0 THEN @ - 1 ELSE @,
          !.terminate_on_error =
              IF runner.retries > 0 THEN FALSE ELSE runner.user_terminate_on_error,
          !.phase = "running"]
    /\ UNCHANGED <<queues, nextTag, xvars, hvars, agent, mvars>>

\* run_in_executor returns or raises; a new Agent is built for each attempt.
manager_run_agent_in_executor_done(outcome) ==
    /\ runner.kind = "Manager"
    /\ runner.phase = "running"
    /\ outcome \in Outcomes
    /\ LET again == outcome = "error" /\ runner.retries # 0
       IN runner' = [runner EXCEPT
             !.attempts = Append(@, [terminate_on_error |-> runner.terminate_on_error,
                                     outcome |-> outcome]),
             !.phase = IF again THEN "loop" ELSE "done",
             !.task = IF again THEN "pending"
                      ELSE IF outcome = "ok" THEN "ok"
                      ELSE IF outcome = "error" THEN "raised"
                      ELSE "cancelled"]
    /\ queues' = AfterAttempt(queues, runner.terminate_on_error, outcome)
    /\ UNCHANGED <<nextTag, xvars, hvars, agent, mvars>>

\* What task.result() raises.
TaskResult(task) ==
    IF task = "raised" THEN "AgentError"
    ELSE IF task = "cancelled" THEN "CancelledError"
    ELSE "none"

\* Launcher.wait(agent_id, ignore_error=..., timeout=...) returns or raises;
\* on a pending task it is the timeout that ends the wait, and
\* asyncio.wait_for cancels the task it waited for.
launcher_wait(known, ignore_error) ==
    /\ runner.kind = "Launcher"
    /\ IF ~known
       THEN runner' = [runner EXCEPT !.wait =
               [called |-> TRUE, known |-> FALSE, suppress |-> ignore_error,
                pending |-> FALSE, raised |-> "BadEntityIdError"]]
       ELSE IF runner.task = "pending"
       THEN runner' = [runner EXCEPT
               !.wait = [called |-> TRUE, known |-> TRUE, suppress |-> ignore_error,
                         pending |-> TRUE, raised |-> "TimeoutError"],
               !.attempts = IF runner.phase = "running"
                            THEN Append(@, [terminate_on_error |-> runner.terminate_on_error,
                                            outcome |-> "cancelled"])
                            ELSE @,
               !.phase = "done",
               !.task = IF runner.phase = "running" THEN "ok" ELSE "cancelled"]
       ELSE runner' = [runner EXCEPT !.wait =
               [called |-> TRUE, known |-> TRUE, suppress |-> ignore_error,
                pending |-> FALSE,
                raised |-> IF ignore_error THEN "none" ELSE TaskResult(runner.task)]]
    /\ UNCHANGED <<queues, nextTag, xvars, hvars, agent, mvars>>

\* Manager.wait(agent, raise_error=..., timeout=...) returns or raises.
manager_wait(known, raise_error) ==
    /\ runner.kind = "Manager"
    /\ runner' = [runner EXCEPT !.wait =
          [called |-> TRUE, known |-> known, suppress |-> ~raise_error,
           pending |-> known /\ runner.task = "pending",
           raised |-> IF ~known THEN "BadEntityIdError"
                      ELSE IF runner.task = "pending" THEN "TimeoutError"
                      ELSE IF raise_error THEN TaskResult(runner.task)
                      ELSE "none"]]
    /\ UNCHANGED <<queues, nextTag, xvars, hvars, agent, mvars>>

\* A launcher or a manager with any restart budget has launched the agent.
InitRestart ==
    /\ queues = [e \in Entities |-> EmptyQueue]
    /\ behaviors = <<[aid |-> RunningAgent, type |-> "EmptyBehavior"]>>
    /\ client = [c \in ClientIds |-> "bound"]
    /\ recvWait = [c \in ClientIds |-> FALSE]
    /\ ret = [c \in ClientIds |-> "none"]
    /\ nextTag = 1
    /\ recvLog = [e \in Entities |-> <<>>]
    /\ HandleIdle
    /\ agent = AgentNew(DefaultConfig)
    /\ \E kind \in {"Launcher", "Manager"}, max \in 0..MaxRestarts, toe \in BOOLEAN :
          runner = RunnerNew(kind, max, toe)
    /\ manager = NoManager
    /\ backend = NoBackend

NextRestart ==
    \/ launcher_run_agent
    \/ \E outcome \in Outcomes : launcher_run_agent_done(outcome)
    \/ manager_run_agent_in_executor
    \/ \E outcome \in Outcomes : manager_run_agent_in_executor_done(outcome)
    \/ \E known, ignore_error \in BOOLEAN : launcher_wait(known, ignore_error)
    \/ \E known, raise_error \in BOOLEAN : manager_wait(known, raise_error)

SpecRestart == InitRestart /\ [][NextRestart]_vars

AttemptsMade == Len(runner.attempts)
LastAttempt == runner.attempts[AttemptsMade]
NoAttemptCancelled ==
    \A i \in 1..AttemptsMade : runner.attempts[i].outcome # "cancelled"

\* C18: a failing agent is restarted up to max_restarts times: when the run
\* loop has ended after a failed attempt, max_restarts + 1 attempts were made
\* (never more), and a loop that ended with a successful attempt ends
\* without error.
C18_RestartCount ==
    (runner.phase = "done" /\ AttemptsMade > 0 /\ NoAttemptCancelled) =>
        /\ AttemptsMade <= runner.max_restarts + 1
        /\ LastAttempt.outcome = "error" => AttemptsMade = runner.max_restarts + 1
        /\ LastAttempt.outcome = "ok" => runner.task = "ok"

\* C19: every attempt but the last permitted one (number max_restarts + 1)
\* runs with terminate_on_error overridden to false, so the mailbox is ACTIVE
\* whenever the agent is restarted; the last one runs with the user's
\* terminate_on_error, so the attempt whose failure ends the loop ran with
\* the user's policy.
C19_RestartKeepsMailbox ==
    /\ \A i \in 1..AttemptsMade :
          runner.attempts[i].outcome # "cancelled" =>
              runner.attempts[i].terminate_on_error =
                  IF i < runner.max_restarts + 1 THEN FALSE
                  ELSE runner.user_terminate_on_error
    /\ (runner.phase \in {"loop", "running"} /\ AttemptsMade > 0) =>
          status(RunningAgent) = "ACTIVE"
    /\ (runner.phase = "done" /\ AttemptsMade > 0 /\ LastAttempt.outcome = "error") =>
          LastAttempt.terminate_on_error = runner.user_terminate_on_error

\* C20: wait() raises BadEntityIdError for an agent that was not launched
\* here, TimeoutError when the timeout expires first, and for an agent that
\* exited because of a failure the agent's exception unless errors are
\* suppressed.
C20_WaitRaises ==
    runner.wait.called =>
        /\ ~runner.wait.known => runner.wait.raised = "BadEntityIdError"
        /\ (runner.wait.known /\ runner.wait.pending) =>
              runner.wait.raised = "TimeoutError"
        /\ (runner.wait.known /\ ~runner.wait.pending /\ runner.wait.suppress) =>
              runner.wait.raised = "none"
        /\ (/\ runner.wait.known
            /\ ~runner.wait.pending
            /\ ~runner.wait.suppress
            /\ AttemptsMade > 0
            /\ LastAttempt.outcome = "error") =>
              runner.wait.raised = "AgentError"

(***************************************************************************)
(* Manager: shutdown() of one agent and close() of the manager             *)
(* (SpecManager).  The manager's client is c1; it launched m1 and then m2  *)
(* with max_retries = 0 and the default run configuration; a1 is an agent  *)
(* of the exchange that this manager did not launch.                       *)
(***************************************************************************)
ManagedAgents == {"m1", "m2"}
AcbOrder == <<"m1", "m2">>          \* iteration order of the _acbs dict
ManagerClient == "c1"
NoCall == [called |-> FALSE, agent |-> "none", sent |-> FALSE,
           waiting |-> FALSE, raised |-> "none"]

\* Manager(exchange_client, executors) after launch(m1) and launch(m2).
ManagerNew ==
    [acbs |-> [a \in ManagedAgents |-> "pending"],  \* acb.task per agent
     phase |-> "open",              \* close(): open | awaiting | closed | raised
     awaited |-> {},                \* agents whose task close() has awaited
     exchange_closed |-> FALSE,
     executors_shutdown |-> FALSE,
     close_raised |-> <<>>,         \* agents whose error close() raised
     shutdown |-> NoCall]           \* the last shutdown(): arguments and result

ShutdownMessage(tag, dest) ==
    Message(tag, ManagerClient, dest, NoLabel, "ShutdownRequest", "unset")

\* handle.shutdown() outside any 'suppress': every error of the send raises.
UnsuppressedShutdown(qs, tag, a) ==
    LET r == ExchangeSend(qs, a, ShutdownMessage(tag, a)) IN
    [queues |-> r.queues, sent |-> r.err = "none", raised |-> r.err]

\* handle.shutdown() under contextlib.suppress(MailboxClosedError): the
\* mailbox table after, whether the request went out, and what still raises.
SuppressedShutdown(qs, tag, a) ==
    LET r == ExchangeSend(qs, a, ShutdownMessage(tag, a)) IN
    [queues |-> r.queues,
     sent |-> r.err = "none",
     raised |-> IF r.err = "MailboxClosedError" THEN "none" ELSE r.err]

\* task.done() of an agent control block.
TaskDone(task) == task \in {"ok", "raised"}

\* The run of a launched agent reaches its shutdown, by request or after an
\* error: the agent terminates its mailbox as the default configuration says;
\* its task is not done yet.
manager_agent_shutdown(a, outcome) ==
    /\ manager.acbs[a] = "pending"
    /\ outcome \in {"ok", "error"}
    /\ manager' = [manager EXCEPT !.acbs[a] = IF outcome = "ok" THEN "stopping_ok"
                                                             ELSE "stopping_error"]
    /\ IF TerminateDecision(AttemptAgent(TRUE, outcome))
       THEN /\ queues' = Terminated(queues, a)
            /\ behaviors' = RemoveKey(behaviors, a)
       ELSE UNCHANGED <<queues, behaviors>>
    /\ UNCHANGED <<nextTag, client, recvWait, ret, recvLog, hvars, agent, runner, backend>>

\* The task of a launched agent ends: run_in_executor returned or raised.
manager_agent_exit(a) ==
    /\ manager.acbs[a] \in {"stopping_ok", "stopping_error"}
    /\ manager' = [manager EXCEPT !.acbs[a] = IF @ = "stopping_ok" THEN "ok" ELSE "raised"]
    /\ UNCHANGED <<queues, nextTag, xvars, hvars, agent, runner, backend>>

\* Manager.shutdown(agent, blocking=blocking) up to its return or its wait().
manager_shutdown(a, blocking) ==
    /\ manager.phase = "open"
    /\ ~manager.shutdown.waiting
    /\ IF a \notin ManagedAgents
       THEN /\ manager' = [manager EXCEPT !.shutdown =
                   [NoCall EXCEPT !.called = TRUE, !.agent = a,
                                  !.raised = "BadEntityIdError"]]
            /\ UNCHANGED <<queues, nextTag>>
       ELSE IF TaskDone(manager.acbs[a])
       THEN /\ manager' = [manager EXCEPT !.shutdown =
                   [NoCall EXCEPT !.called = TRUE, !.agent = a]]
            /\ UNCHANGED <<queues, nextTag>>
       ELSE /\ nextTag <= MaxCalls
            /\ LET r == SuppressedShutdown(queues, nextTag, a) IN
               /\ queues' = r.queues
               /\ manager' = [manager EXCEPT !.shutdown =
                      [called |-> TRUE, agent |-> a, sent |-> r.sent,
                       waiting |-> blocking /\ r.raised = "none",
                       raised |-> r.raised]]
            /\ nextTag' = nextTag + 1
    /\ UNCHANGED <<xvars, hvars, agent, runner, backend>>

\* The wait() of a blocking shutdown() ends: the task is done, or the
\* timeout expires first.
manager_shutdown_wait_done ==
    /\ manager.shutdown.waiting
    /\ manager' = [manager EXCEPT
          !.shutdown.waiting = FALSE,
          !.shutdown.raised =
              IF ~TaskDone(manager.acbs[manager.shutdown.agent]) THEN "TimeoutError"
              ELSE TaskResult(manager.acbs[manager.shutdown.agent])]
    /\ UNCHANGED <<queues, nextTag, xvars, hvars, agent, runner, backend>>

RECURSIVE ShutdownAll(_, _, _, _)
\* close(), first loop: handle.shutdown() for every agent whose task is not
\* done, in dict order, from the i-th on.  Returns the table and the next tag.
ShutdownAll(qs, tag, acbs, i) ==
    IF i > Len(AcbOrder) THEN [queues |-> qs, tag |-> tag]
    ELSE IF TaskDone(acbs[AcbOrder[i]]) THEN ShutdownAll(qs, tag, acbs, i + 1)
    ELSE ShutdownAll(SuppressedShutdown(qs, tag, AcbOrder[i]).queues, tag + 1, acbs, i + 1)

manager_close ==
    /\ manager.phase = "open"
    /\ ~manager.shutdown.waiting
    /\ LET r == ShutdownAll(queues, nextTag, manager.acbs, 1) IN
       /\ queues' = r.queues
       /\ nextTag' = r.tag
    /\ manager' = [manager EXCEPT !.phase = "awaiting"]
    /\ UNCHANGED <<xvars, hvars, agent, runner, backend>>

\* close(), second loop, one turn: 'await acb.task; acb.task.result()' for
\* the next agent; after the last one the exchange client is closed and the
\* executors are shut down.
manager_close_await ==
    /\ manager.phase = "awaiting"
    /\ LET i == Cardinality(manager.awaited) + 1
           a == AcbOrder[i]
           last == i = Len(AcbOrder)
       IN /\ TaskDone(manager.acbs[a])
          /\ IF manager.acbs[a] = "raised"
             THEN /\ manager' = [manager EXCEPT !.awaited = @ \cup {a},
                                                !.phase = "raised",
                                                !.close_raised = <<a>>]
                  /\ UNCHANGED <<queues, client>>
             ELSE /\ manager' = [manager EXCEPT
                        !.awaited = @ \cup {a},
                        !.phase = IF last THEN "closed" ELSE "awaiting",
                        !.exchange_closed = last,
                        !.executors_shutdown = last]
                  /\ IF last
                     THEN /\ LET qs == Terminated(queues, ManagerClient) IN
                             queues' = [e \in DOMAIN qs |->
                                 IF qs[e].exists THEN QueueClose(qs[e]) ELSE qs[e]]
                          /\ client' = [client EXCEPT ![ManagerClient] = "closed"]
                     ELSE UNCHANGED <<queues, client>>
    /\ UNCHANGED <<nextTag, behaviors, recvWait, ret, recvLog, hvars, agent, runner, backend>>

InitManager ==
    /\ queues = [e \in Entities \cup ManagedAgents |-> EmptyQueue]
    /\ behaviors = <<[aid |-> RunningAgent, type |-> "EmptyBehavior"],
                     [aid |-> "m1", type |-> "EmptyBehavior"],
                     [aid |-> "m2", type |-> "EmptyBehavior"]>>
    /\ client = [c \in ClientIds |-> "bound"]
    /\ recvWait = [c \in ClientIds |-> FALSE]
    /\ ret = [c \in ClientIds |-> "none"]
    /\ nextTag = 1
    /\ recvLog = [e \in Entities |-> <<>>]
    /\ HandleIdle
    /\ agent = NoAgent
    /\ runner = RunnerIdle
    /\ manager = ManagerNew
    /\ backend = NoBackend

NextManager ==
    \/ \E a \in ManagedAgents, outcome \in {"ok", "error"} : manager_agent_shutdown(a, outcome)
    \/ \E a \in ManagedAgents : manager_agent_exit(a)
    \/ \E a \in ManagedAgents \cup {RunningAgent}, blocking \in BOOLEAN :
          manager_shutdown(a, blocking)
    \/ manager_shutdown_wait_done
    \/ manager_close
    \/ manager_close_await

SpecManager == InitManager /\ [][NextManager]_vars

RaisedAgents == {a \in ManagedAgents : manager.acbs[a] = "raised"}

\* C21: when Manager.close() has returned or raised, whether or not an agent
\* ended with an error, every agent task has been awaited, the exchange
\* client is closed, every executor is shut down, and the errors of all the
\* failed agents are raised together as one aggregated error.
C21_CloseReleasesEverything ==
    manager.phase \in {"closed", "raised"} =>
        /\ manager.awaited = ManagedAgents
        /\ manager.exchange_closed
        /\ manager.executors_shutdown
        /\ {manager.close_raised[i] : i \in 1..Len(manager.close_raised)} = RaisedAgents
        /\ Len(manager.close_raised) = Cardinality(RaisedAgents)

\* C22: Manager.shutdown(agent) raises BadEntityIdError for an agent this
\* manager did not launch; for an agent whose task is done it returns without
\* sending anything, however often it is called; and a MailboxClosedError
\* raised while sending the shutdown request is ignored.  It changes nothing
\* but the mailbox it sends to.
C22_ShutdownIdempotent ==
    [][\A a \in ManagedAgents \cup {RunningAgent}, blocking \in BOOLEAN :
          manager_shutdown(a, blocking) =>
            LET res == manager'.shutdown IN
            /\ a \notin ManagedAgents =>
                  res.raised = "BadEntityIdError" /\ ~res.sent /\ queues' = queues
            /\ (a \in ManagedAgents /\ TaskDone(manager.acbs[a])) =>
                  /\ res.raised = "none" /\ ~res.sent /\ ~res.waiting
                  /\ queues' = queues /\ nextTag' = nextTag
            /\ (a \in ManagedAgents /\ ~TaskDone(manager.acbs[a])) =>
                  /\ res.raised = "none"
                  /\ res.sent = (status(a) = "ACTIVE")
                  /\ \A e \in DOMAIN queues : e # a => queues'[e] = queues[e]
            /\ manager'.acbs = manager.acbs]_vars

\* A shutdown() of an agent whose mailbox is terminated and whose task is not
\* done yet has returned normally without a request going out.
C22_Witness ==
    /\ manager.shutdown.called
    /\ manager.shutdown.agent \in ManagedAgents
    /\ manager.shutdown.raised = "none"
    /\ ~manager.shutdown.sent
    /\ ~manager.shutdown.waiting
    /\ manager.acbs[manager.shutdown.agent] = "stopping_error"

(***************************************************************************)
(* Cloud mailbox backend (academy.exchange.cloud.backend, not among the    *)
(* sources): the in-process backend of the specification, 4.2, with the    *)
(* callers and mailboxes of the backend tests (SpecBackend).               *)
(***************************************************************************)
MaxQueued == 1                      \* messages put and not yet got, per mailbox
BackendIds == {"b1", "b2"}
ClientInfos == {"me", "friend", "not_me"}
Groups == {"g"}
BehaviorNames == {"EmptyAgent", "SubClass"}
NoMailbox == [status |-> "MISSING"]

\* ClientInfo(label, groups): me and friend are in group g, not_me in none.
ClientGroups(c) == IF c \in {"me", "friend"} THEN {"g"} ELSE {}

\* The ancestry create_mailbox is given for each agent id, most derived first.
Ancestry(id) == IF id = "b1" THEN <<"EmptyAgent">> ELSE <<"SubClass", "EmptyAgent">>

BackendNew ==
    [mailboxes |-> [id \in BackendIds |-> NoMailbox],
     order |-> <<>>,                \* agent ids in registration order
     last |-> [op |-> "none"]]      \* the last call and what it returned or raised

Exists(id) == backend.mailboxes[id].status # "MISSING"

\* A permission check that lets every caller through.
AnyCaller(c, id) == TRUE

HasOwnership(c, id) == backend.mailboxes[id].owner = c

HasPermissions(c, id) ==
    \/ HasOwnership(c, id)
    \/ ClientGroups(c) \cap backend.mailboxes[id].shared # {}

Matches(id, name, sub) ==
    IF sub THEN \E i \in 1..Len(Ancestry(id)) : Ancestry(id)[i] = name
    ELSE Ancestry(id)[1] = name

\* discover without the permission filter.
BackendDiscoverAll(c, name, sub) ==
    LET Keep(id) == backend.mailboxes[id].status = "ACTIVE" /\ Matches(id, name, sub)
    IN SelectSeq(backend.order, Keep)

BackendDiscover(c, name, sub) ==
    LET Keep(id) == /\ backend.mailboxes[id].status = "ACTIVE"
                    /\ HasPermissions(c, id)
                    /\ Matches(id, name, sub)
    IN SelectSeq(backend.order, Keep)

\* The record of a finished call.
Called(op, c, id, result, value) ==
    [op |-> op, caller |-> c, id |-> id, result |-> result, value |-> value]

backend_create_mailbox(c, id) ==
    /\ IF ~Exists(id)
       THEN backend' = [backend EXCEPT
              !.mailboxes[id] = [status |-> "ACTIVE", owner |-> c, shared |-> {}, queue |-> 0],
              !.order = Append(@, id),
              !.last = Called("create_mailbox", c, id, "none", "none")]
       ELSE backend' = [backend EXCEPT !.last =
              Called("create_mailbox", c, id,
                     IF HasOwnership(c, id) THEN "none" ELSE "ForbiddenError", "none")]
    /\ UNCHANGED <<queues, nextTag, xvars, hvars, agent, runner, manager>>

backend_terminate(c, id) ==
    /\ IF ~Exists(id)
       THEN backend' = [backend EXCEPT !.last = Called("terminate", c, id, "none", "none")]
       ELSE IF ~HasPermissions(c, id)
       THEN backend' = [backend EXCEPT !.last =
              Called("terminate", c, id, "ForbiddenError", "none")]
       ELSE backend' = [backend EXCEPT
              !.mailboxes[id].status = "TERMINATED",
              !.last = Called("terminate", c, id, "none", "none")]
    /\ UNCHANGED <<queues, nextTag, xvars, hvars, agent, runner, manager>>

backend_put(c, id) ==
    /\ LET raised == IF ~Exists(id) THEN "BadEntityIdError"
                     ELSE IF ~HasPermissions(c, id) THEN "ForbiddenError"
                     ELSE IF backend.mailboxes[id].status = "TERMINATED"
                          THEN "MailboxTerminatedError"
                     ELSE "none"
       IN IF raised # "none"
          THEN backend' = [backend EXCEPT !.last = Called("put", c, id, raised, "none")]
          ELSE /\ backend.mailboxes[id].queue < MaxQueued
               /\ backend' = [backend EXCEPT
                     !.mailboxes[id].queue = @ + 1,
                     !.last = Called("put", c, id, "none", "none")]
    /\ UNCHANGED <<queues, nextTag, xvars, hvars, agent, runner, manager>>

\* get with a timeout: an empty mailbox ends the call with TimeoutError.
backend_get(c, id) ==
    /\ LET raised == IF ~Exists(id) THEN "BadEntityIdError"
                     ELSE IF ~HasPermissions(c, id) THEN "ForbiddenError"
                     ELSE IF backend.mailboxes[id].status = "TERMINATED"
                          THEN "MailboxTerminatedError"
                     ELSE IF backend.mailboxes[id].queue = 0 THEN "TimeoutError"
                     ELSE "none"
       IN IF raised # "none"
          THEN backend' = [backend EXCEPT !.last = Called("get", c, id, raised, "none")]
          ELSE backend' = [backend EXCEPT
                 !.mailboxes[id].queue = @ - 1,
                 !.last = Called("get", c, id, "none", "message")]
    /\ UNCHANGED <<queues, nextTag, xvars, hvars, agent, runner, manager>>

backend_check_mailbox(c, id) ==
    /\ backend' = [backend EXCEPT !.last =
          IF ~Exists(id) THEN Called("check_mailbox", c, id, "none", "MISSING")
          ELSE IF ~HasPermissions(c, id)
               THEN Called("check_mailbox", c, id, "ForbiddenError", "none")
          ELSE Called("check_mailbox", c, id, "none", backend.mailboxes[id].status)]
    /\ UNCHANGED <<queues, nextTag, xvars, hvars, agent, runner, manager>>

\* share_mailbox: only the owner, and only with a group of their own.
backend_share_mailbox(c, id, g) ==
    /\ Exists(id)
    /\ IF HasOwnership(c, id) /\ g \in ClientGroups(c)
       THEN backend' = [backend EXCEPT
              !.mailboxes[id].shared = @ \cup {g},
              !.last = Called("share_mailbox", c, id, "none", "none")]
       ELSE backend' = [backend EXCEPT !.last =
              Called("share_mailbox", c, id, "ForbiddenError", "none")]
    /\ UNCHANGED <<queues, nextTag, xvars, hvars, agent, runner, manager>>

backend_discover(c, name, sub) ==
    /\ backend' = [backend EXCEPT !.last =
          Called("discover", c, name, "none", BackendDiscover(c, name, sub))]
    /\ UNCHANGED <<queues, nextTag, xvars, hvars, agent, runner, manager>>

InitBackend ==
    /\ queues = <<>>
    /\ behaviors = <<>>
    /\ client = <<>>
    /\ recvWait = <<>>
    /\ ret = <<>>
    /\ nextTag = 1
    /\ recvLog = <<>>
    /\ HandleIdle
    /\ agent = NoAgent
    /\ runner = RunnerIdle
    /\ manager = NoManager
    /\ backend = BackendNew

NextBackend ==
    \/ \E c \in ClientInfos, id \in BackendIds :
          \/ backend_create_mailbox(c, id)
          \/ backend_terminate(c, id)
          \/ backend_put(c, id)
          \/ backend_get(c, id)
          \/ backend_check_mailbox(c, id)
          \/ \E g \in Groups : backend_share_mailbox(c, id, g)
    \/ \E c \in ClientInfos, name \in BehaviorNames, sub \in BOOLEAN :
          backend_discover(c, name, sub)

SpecBackend == InitBackend /\ [][NextBackend]_vars

\* C23: create_mailbox on an existing mailbox changes no mailbox; called by
\* the mailbox's owner it succeeds, called by anyone else it fails with
\* ForbiddenError.
C23_CreateMailboxIdempotent ==
    [][LET c == backend'.last.caller
           id == backend'.last.id
       IN (backend'.last.op = "create_mailbox" /\ Exists(id)) =>
            /\ backend'.mailboxes = backend.mailboxes
            /\ backend'.order = backend.order
            /\ backend'.last.result =
                  IF backend.mailboxes[id].owner = c THEN "none" ELSE "ForbiddenError"]_vars

\* A caller in the owner's group, with the mailbox shared to that group and
\* a message queued in it, was refused by create_mailbox.
C23_Witness ==
    /\ backend.last.op = "create_mailbox"
    /\ backend.last.result = "ForbiddenError"
    /\ backend.last.caller = "friend"
    /\ backend.mailboxes[backend.last.id].owner = "me"
    /\ backend.mailboxes[backend.last.id].shared = {"g"}
    /\ backend.mailboxes[backend.last.id].queue > 0

\* C24: put, get, check_mailbox and terminate on an existing mailbox, called
\* by someone who is neither its owner nor in a group it was shared with,
\* fail with ForbiddenError and leave every mailbox as it was.
C24_AccessControl ==
    [][LET c == backend'.last.caller
           id == backend'.last.id
       IN (/\ backend'.last.op \in {"put", "get", "check_mailbox", "terminate"}
           /\ Exists(id)
           /\ backend.mailboxes[id].owner # c
           /\ ClientGroups(c) \cap backend.mailboxes[id].shared = {}) =>
            /\ backend'.last.result = "ForbiddenError"
            /\ backend'.mailboxes = backend.mailboxes]_vars

\* A member of the owner's group was refused a get on a mailbox that holds a
\* message and has not been shared.
C24_Witness ==
    /\ backend.last.op = "get"
    /\ backend.last.result = "ForbiddenError"
    /\ backend.last.caller = "friend"
    /\ backend.mailboxes[backend.last.id].owner = "me"
    /\ backend.mailboxes[backend.last.id].shared = {}
    /\ backend.mailboxes[backend.last.id].status = "ACTIVE"
    /\ backend.mailboxes[backend.last.id].queue > 0

\* C27: discover returns no agent id whose mailbox the caller neither owns
\* nor shares; a caller with no permission on any matching agent gets the
\* empty list.
C27_DiscoverRespectsPermissions ==
    [][backend'.last.op = "discover" =>
         \A i \in 1..Len(backend'.last.value) :
            LET id == backend'.last.value[i] IN
            \/ backend.mailboxes[id].owner = backend'.last.caller
            \/ ClientGroups(backend'.last.caller) \cap backend.mailboxes[id].shared # {}]_vars

\* not_me got the empty list while both agents are ACTIVE, match the query
\* and belong to me, one of them shared with me's group.
C27_Witness ==
    /\ backend.last.op = "discover"
    /\ backend.last.caller = "not_me"
    /\ backend.last.id = "EmptyAgent"
    /\ backend.last.value = <<>>
    /\ \A id \in BackendIds : /\ backend.mailboxes[id].status = "ACTIVE"
                               /\ backend.mailboxes[id].owner = "me"
    /\ backend.mailboxes["b2"].shared = {"g"}

\* C25: in every state the exchange reaches, terminate(uid) of a mailbox that
\* is MISSING or already TERMINATED leaves every mailbox and the behavior
\* table as they are: a missing mailbox stays MISSING (terminate has no path
\* that raises), a terminated one stays TERMINATED with its contents.
C25_TerminateNoOp ==
    \A uid \in Entities :
        status(uid) \in {"MISSING", "TERMINATED"} =>
            /\ Terminated(queues, uid) = queues
            /\ TerminatedBehaviors(queues, behaviors, uid) = behaviors

\* The agent's mailbox was never registered, a client's mailbox is terminated
\* with a message still in it, and a client is bound to call terminate.
C25_Witness ==
    /\ status("a1") = "MISSING"
    /\ \E c \in ClientIds : status(c) = "TERMINATED" /\ Len(queues[c].items) > 0
    /\ \E c \in ClientIds : client[c] = "bound"

(***************************************************************************)
(* Discovery on the thread exchange (SpecDiscover): agents d1 of behavior  *)
(* B and d2, d3 of behavior C, a subclass of B; nobody implements A.       *)
(***************************************************************************)
DiscoverIds == {"d1", "d2", "d3"}
BehaviorTypes == {"A", "B", "C"}
BehaviorOf(aid) == IF aid = "d1" THEN "B" ELSE "C"

\* The classes issubclass(type_, .) accepts: the type and its bases.
Mro(type) == IF type = "C" THEN {"C", "B"} ELSE {type}

\* discover that takes every subclass whatever allow_subclasses says.
DiscoverSubclassesAlways(qs, bs, behavior, allow_subclasses) ==
    LET Found(e) == behavior = e.type \/ behavior \in Mro(e.type)
        Alive(e) == ~QueueClosed(qs[e.aid])
        alive == SelectSeq(SelectSeq(bs, Found), Alive)
    IN [i \in 1..Len(alive) |-> alive[i].aid]

\* The tuple discover(behavior, allow_subclasses=...) returns.
Discover(qs, bs, behavior, allow_subclasses) ==
    LET Found(e) == \/ behavior = e.type
                    \/ allow_subclasses /\ behavior \in Mro(e.type)
        Alive(e) == ~QueueClosed(qs[e.aid])
        alive == SelectSeq(SelectSeq(bs, Found), Alive)
    IN [i \in 1..Len(alive) |-> alive[i].aid]

discover(c, behavior, allow_subclasses) ==
    /\ client[c] = "bound"
    /\ ret' = [ret EXCEPT ![c] =
          [behavior |-> behavior, allow_subclasses |-> allow_subclasses,
           found |-> Discover(queues, behaviors, behavior, allow_subclasses)]]
    /\ UNCHANGED <<queues, nextTag, behaviors, client, recvWait, recvLog, hvars, lvars>>

InitDiscover ==
    /\ queues = [e \in ClientIds \cup DiscoverIds |->
                   IF e \in ClientIds THEN EmptyQueue ELSE NoQueue]
    /\ behaviors = <<>>
    /\ client = [c \in ClientIds |-> "bound"]
    /\ recvWait = [c \in ClientIds |-> FALSE]
    /\ ret = [c \in ClientIds |->
                [behavior |-> "none", allow_subclasses |-> FALSE, found |-> <<>>]]
    /\ nextTag = 1
    /\ recvLog = <<>>
    /\ HandleIdle
    /\ agent = NoAgent
    /\ runner = RunnerIdle
    /\ manager = NoManager
    /\ backend = NoBackend

NextDiscover ==
    \/ \E c \in ClientIds, aid \in DiscoverIds : register_agent(c, aid, BehaviorOf(aid))
    \/ \E c \in ClientIds, uid \in DiscoverIds : terminate(c, uid)
    \/ \E c \in Callers, b \in BehaviorTypes, sub \in BOOLEAN : discover(c, b, sub)

SpecDiscover == InitDiscover /\ [][NextDiscover]_vars

\* C26: after any sequence of register and terminate operations, and for
\* every behavior B, discover(B, allow_subclasses=false) lists exactly the
\* ACTIVE agents whose behavior is B and discover(B, allow_subclasses=true)
\* exactly the ACTIVE agents whose behavior ancestry contains B, each once
\* and never a terminated one; the list is in registration order: a
\* registration puts the agent last, a termination only removes the agent.
C26_DiscoveryFilter ==
    [][LET Elems(t) == {t[i] : i \in 1..Len(t)}
           Expected(qs, b, sub) ==
               {aid \in DiscoverIds :
                   /\ qs[aid].exists /\ ~QueueClosed(qs[aid])
                   /\ IF sub THEN b \in Mro(BehaviorOf(aid)) ELSE b = BehaviorOf(aid)}
           Exact(qs, bs) ==
               \A b \in BehaviorTypes, sub \in BOOLEAN :
                   LET t == Discover(qs, bs, b, sub) IN
                   /\ Elems(t) = Expected(qs, b, sub)
                   /\ Len(t) = Cardinality(Elems(t))
           InOrder(t, u) ==          \* u keeps t's order and puts newcomers last
               LET Old(x) == x \in Elems(t)
                   Kept(x) == x \in Elems(u)
               IN /\ SelectSeq(u, Old) = SelectSeq(t, Kept)
                  /\ \A i, j \in 1..Len(u) : (i < j /\ Old(u[j])) => Old(u[i])
       IN /\ Exact(queues, behaviors)
          /\ Exact(queues', behaviors')
          /\ \A b \in BehaviorTypes, sub \in BOOLEAN :
                InOrder(Discover(queues, behaviors, b, sub),
                        Discover(queues', behaviors', b, sub))]_vars

\* The case of the exchange test: B, C and a second C registered, the last
\* one terminated; discover(B, allow_subclasses=True) returned the first two.
C26_Witness ==
    /\ ret["c1"].behavior = "B"
    /\ ret["c1"].allow_subclasses
    /\ ret["c1"].found = <<"d1", "d2">>
    /\ status("d3") = "TERMINATED"

\* C28: when the listener of a user client takes a request from its mailbox
\* it sends exactly one response, an ErrorResponse carrying TypeError with the
\* request's tag and label, to the request's src (nothing if that mailbox is
\* gone) and touches no handle; when it takes a response it sends nothing.
C28_UserClientRepliesTypeError ==
    [][\A c \in ClientIds :
          (/\ listen(c)
           /\ ~QueueClosed(queues[c])
           /\ Len(queues[c].items) > 0) =>
            LET m == Head(queues[c].items)
                taken == [queues EXCEPT ![c].items = Tail(@)]
                reply == [tag |-> m.tag, src |-> m.dest, dest |-> m.src,
                          label |-> m.label, body |-> "ErrorResponse",
                          arg |-> "TypeError"]
            IN IF m.body \in {"ActionRequest", "PingRequest", "ShutdownRequest"}
               THEN /\ queues' = IF status(m.src) = "ACTIVE"
                                 THEN [taken EXCEPT ![m.src].items = Append(@, reply)]
                                 ELSE taken
                    /\ respCount'[m.tag] = respCount[m.tag] + 1
                    /\ respLog' = respLog \cup {reply}
                    /\ UNCHANGED <<futures, future, processed, dropped>>
               ELSE /\ queues' = taken
                    /\ UNCHANGED <<respLog, respCount>>]_vars

\* c2's listener has answered c1's request: the one response to it is the
\* TypeError reply, delivered to c1's mailbox.
C28_Witness ==
    \E i \in 1..Len(requests) :
        LET m == requests[i] IN
        /\ m.src = "c1" /\ m.dest = "c2"
        /\ respCount[m.tag] = 1
        /\ \E j \in 1..Len(queues["c1"].items) :
              LET r == queues["c1"].items[j] IN
              /\ r.tag = m.tag /\ r.src = "c2"
              /\ r.body = "ErrorResponse" /\ r.arg = "TypeError"

(***************************************************************************)
(* RemoteHandle.ping with and without a timeout (SpecPing).  The arg of a  *)
(* PingRequest of the model records the timeout argument of the call       *)
(* ("timeout" or "none"); the message itself carries no such field.        *)
(***************************************************************************)

\* A timeout test that does not look at the future.
TimedOutEvenIfDone(fut, timeout) == timeout # "none"

\* asyncio.wait({future}, timeout=timeout) returned with the future pending.
TimedOut(fut, timeout) == timeout # "none" /\ fut = "pending"

ping_with_timeout(h) ==
    /\ h \in HandleIds
    /\ RequestCall(h, "PingRequest", "timeout")

\* The timeout of a ping elapses: TimeoutError, and nothing else happens.
ping_timeout(t) ==
    /\ call[t] = "waiting"
    /\ requests[t].body = "PingRequest"
    /\ TimedOut(future[t], requests[t].arg)
    /\ call' = [call EXCEPT ![t] = "raised_timeout"]
    /\ UNCHANGED <<queues, nextTag, xvars, lvars, handles, bound_handles, futures,
                   future, future_value, requests, listener, inflight, seen,
                   respLog, respCount, processed, dropped>>

NextPing ==
    \/ \E c \in Callers, aid \in AgentIds : get_handle(c, aid)
    \/ \E h \in HandleIds : ping(h)
    \/ \E h \in HandleIds : ping_with_timeout(h)
    \/ \E t \in Tags : send_done(t)
    \/ \E t \in Tags : await_done(t)
    \/ \E t \in Tags : ping_timeout(t)
    \/ \E c \in Callers : listen(c)
    \/ agent_recv

SpecPing == InitHandle /\ [][NextPing]_vars

C30_ActionReraisesOriginal ==
    \A t \in 1..Len(requests) :
        requests[t].body = "ActionRequest" =>
            /\ call[t] = "returned" =>
                  requests[t].arg = "ok" /\ future_value[t] = "value"
            /\ call[t] = "raised_remote" =>
                  requests[t].arg = "fails" /\ future_value[t] = "Exception"

\* One action() has returned the method's value and another has raised the
\* method's exception.
C30_Witness ==
    \E t, u \in 1..Len(requests) :
        /\ requests[t].body = "ActionRequest" /\ requests[u].body = "ActionRequest"
        /\ call[t] = "returned" /\ future_value[t] = "value"
        /\ call[u] = "raised_remote" /\ future_value[u] = "Exception"

(***************************************************************************)
(* ProxyHandle (SpecProxy): two proxy handles, each wrapping an agent of   *)
(* its own; handles[h] holds _agent_closed, the number of times a method   *)
(* of the wrapped agent was invoked, and the calls made with their results.*)
(***************************************************************************)
TerminateArgs == {"None", "True", "False"}

proxy_action(h, name) ==
    /\ Len(handles[1].calls) + Len(handles[2].calls) < MaxApiCalls
    /\ handles' = [handles EXCEPT ![h] =
          IF @.agent_closed
          THEN [@ EXCEPT !.calls = Append(@, [op |-> "action", arg |-> name,
                                              result |-> "AgentTerminatedError"])]
          ELSE [@ EXCEPT !.invoked = @ + 1,
                         !.calls = Append(@, [op |-> "action", arg |-> name,
                              result |-> IF name = "ok" THEN "value" ELSE "Exception"])]]
    /\ UNCHANGED <<queues, nextTag, xvars, lvars, bound_handles, futures, future,
                   future_value, call, requests, listener, inflight, seen,
                   respLog, respCount, processed, dropped>>

proxy_ping(h) ==
    /\ Len(handles[1].calls) + Len(handles[2].calls) < MaxApiCalls
    /\ handles' = [handles EXCEPT ![h].calls = Append(@,
          [op |-> "ping", arg |-> "None",
           result |-> IF handles[h].agent_closed THEN "AgentTerminatedError" ELSE "0"])]
    /\ UNCHANGED <<queues, nextTag, xvars, lvars, bound_handles, futures, future,
                   future_value, call, requests, listener, inflight, seen,
                   respLog, respCount, processed, dropped>>

proxy_shutdown(h, term) ==
    /\ Len(handles[1].calls) + Len(handles[2].calls) < MaxApiCalls
    /\ handles' = [handles EXCEPT ![h] =
          IF @.agent_closed
          THEN [@ EXCEPT !.calls = Append(@, [op |-> "shutdown", arg |-> term,
                                              result |-> "AgentTerminatedError"])]
          ELSE [@ EXCEPT !.agent_closed = IF term = "None" THEN TRUE ELSE term = "True",
                         !.calls = Append(@, [op |-> "shutdown", arg |-> term,
                                              result |-> "none"])]]
    /\ UNCHANGED <<queues, nextTag, xvars, lvars, bound_handles, futures, future,
                   future_value, call, requests, listener, inflight, seen,
                   respLog, respCount, processed, dropped>>

InitProxy ==
    /\ queues = <<>>
    /\ behaviors = <<>>
    /\ client = <<>>
    /\ recvWait = <<>>
    /\ ret = <<>>
    /\ nextTag = 1
    /\ recvLog = <<>>
    /\ handles = [h \in HandleIds |-> [agent_closed |-> FALSE, invoked |-> 0, calls |-> <<>>]]
    /\ bound_handles = <<>>
    /\ futures = <<>>
    /\ future = <<>>
    /\ future_value = <<>>
    /\ call = <<>>
    /\ requests = <<>>
    /\ listener = <<>>
    /\ inflight = {}
    /\ seen = {}
    /\ respLog = {}
    /\ respCount = <<>>
    /\ processed = {}
    /\ dropped = {}
    /\ agent = NoAgent
    /\ runner = RunnerIdle
    /\ manager = NoManager
    /\ backend = NoBackend

NextProxy ==
    \/ \E h \in HandleIds, name \in {"ok", "fails"} : proxy_action(h, name)
    \/ \E h \in HandleIds : proxy_ping(h)
    \/ \E h \in HandleIds, term \in TerminateArgs : proxy_shutdown(h, term)

SpecProxy == InitProxy /\ [][NextProxy]_vars

\* C31: once a shutdown() of a proxy handle has returned, every later
\* action(), ping() and shutdown() on that handle raises AgentTerminatedError
\* and invokes no method of the wrapped agent.
C31_ProxyRaisesAfterShutdown ==
    \A h \in HandleIds :
        \A i, j \in 1..Len(handles[h].calls) :
            (/\ i < j
             /\ handles[h].calls[i].op = "shutdown"
             /\ handles[h].calls[i].result = "none") =>
                handles[h].calls[j].result = "AgentTerminatedError"

(***************************************************************************)
(* BoundExchangeClient bound to a mailbox of its own or to an agent's      *)
(* mailbox.  client[e] is the client object whose mailbox_id is e.         *)
(***************************************************************************)
\* BoundExchangeClient(mailbox_id, ...): a new client mailbox when the id is
\* None (the new ClientId e), the agent's mailbox e when it is ACTIVE.
bind_mailbox(e) ==
    /\ client[e] = "unbound"
    /\ e \in AgentIds => status(e) = "ACTIVE"
    /\ queues' = [queues EXCEPT ![e] = IF e \in ClientIds THEN EmptyQueue ELSE @]
    /\ client' = [client EXCEPT ![e] = "bound"]
    /\ UNCHANGED <<behaviors, recvWait, ret, nextTag, recvLog, hvars, lvars>>

\* BoundExchangeClient.close(): only a ClientId mailbox is terminated.
bound_close(e) ==
    /\ client[e] = "bound"
    /\ queues' = IF e \in ClientIds THEN Terminated(queues, e) ELSE queues
    /\ client' = [client EXCEPT ![e] = "closed"]
    /\ UNCHANGED <<behaviors, recvWait, ret, nextTag, recvLog, hvars, lvars>>

InitBind ==
    /\ queues = [e \in Entities |-> IF e \in AgentIds THEN EmptyQueue ELSE NoQueue]
    /\ behaviors = <<[aid |-> "a1", type |-> "EmptyBehavior"]>>
    /\ client = [e \in Entities |-> "unbound"]
    /\ recvWait = <<>>
    /\ ret = <<>>
    /\ nextTag = 1
    /\ recvLog = <<>>
    /\ handles = <<>>
    /\ bound_handles = [e \in Entities |-> {}]
    /\ futures = <<>>
    /\ future = <<>>
    /\ future_value = <<>>
    /\ call = <<>>
    /\ requests = <<>>
    /\ listener = <<>>
    /\ inflight = {}
    /\ seen = {}
    /\ respLog = {}
    /\ respCount = <<>>
    /\ processed = {}
    /\ dropped = {}
    /\ agent = NoAgent
    /\ runner = RunnerIdle
    /\ manager = NoManager
    /\ backend = NoBackend

NextBind ==
    \/ \E e \in Entities : bind_mailbox(e)
    \/ \E e \in Entities, aid \in AgentIds : get_handle(e, aid)
    \/ \E e \in Entities : bound_close(e)

SpecBind == InitBind /\ [][NextBind]_vars

\* C32: a client never holds a handle to its own mailbox: get_handle(aid) on
\* the client bound to aid's mailbox raises and registers no handle.
C32_NoHandleToOwnMailbox ==
    \A h \in 1..Len(handles) :
        /\ handles[h].owner # handles[h].agent_id
        /\ h \notin bound_handles[handles[h].agent_id]

\* C33: client.close() leaves every mailbox other than the client's own as it
\* was: the status and the queued messages of all other entities are the same
\* after the close as before it.
C33_CloseLeavesOtherMailboxes ==
    [][\A c \in ClientIds :
          (client[c] = "bound" /\ client'[c] = "closed") =>
              \A e \in Entities \ {c} : queues'[e] = queues[e]]_vars

(***************************************************************************)
(* academy.exchange.hybrid (not among the sources): direct TCP delivery    *)
(* with a Redis broker as fallback, following the transport description of *)
(* the specification and tests/exchange/hybrid_test.py.  One sender and    *)
(* one destination mailbox; the destination's client is closed and bound   *)
(* again on another port, which leaves the sender's cached address stale.  *)
(*   client   = [port, address_cache]: the port the destination listens on *)
(*              (0: no client bound) and the sender's _address_cache entry *)
(*   backend  = [address, queue]: the address published in Redis and the   *)
(*              destination's Redis indirection queue                      *)
(*   queues   = the destination's in-process queue, consumed by recv()     *)
(*   call     = the send() in progress                                     *)
(*   requests = the send() calls that returned                             *)
(***************************************************************************)
Ports == {1, 2}
NoSend == [phase |-> "idle"]

\* A direct attempt reaches the destination only when it listens on the address.
SendDirect(port, address) == address # 0 /\ address = port

\* Fallback variants that lose or duplicate the message.
BrokerDrop(q, m) == q

\* rpush onto the destination's Redis indirection queue.
BrokerPush(q, m) == Append(q, m)

\* BoundHybridExchangeClient(port=p, mailbox_id=aid): listen on p and publish it.
hybrid_bind(p) ==
    /\ client.port = 0
    /\ client' = [client EXCEPT !.port = p]
    /\ backend' = [backend EXCEPT !.address = p]
    /\ UNCHANGED <<queues, behaviors, recvWait, ret, nextTag, recvLog, hvars, agent,
                   runner, manager>>

\* The destination's client is closed; the mailbox and its Redis keys stay.
hybrid_close ==
    /\ client.port # 0
    /\ client' = [client EXCEPT !.port = 0]
    /\ UNCHANGED <<queues, behaviors, recvWait, ret, nextTag, recvLog, hvars, lvars>>

\* send(): the cached address, if any, is tried first.
hybrid_send ==
    /\ call = NoSend
    /\ nextTag <= MaxTags
    /\ call' = [phase |-> IF client.address_cache # 0 THEN "cached" ELSE "lookup",
                tag |-> nextTag, stale |-> FALSE]
    /\ nextTag' = nextTag + 1
    /\ UNCHANGED <<queues, xvars, lvars, handles, bound_handles, futures, future,
                   future_value, requests, listener, inflight, seen, respLog,
                   respCount, processed, dropped>>

\* The direct attempt on the cached address: delivered, or the cache entry is
\* invalidated and the send goes on to the broker.
hybrid_send_cached ==
    /\ call.phase = "cached"
    /\ IF SendDirect(client.port, client.address_cache)
       THEN /\ queues' = Append(queues, call.tag)
            /\ requests' = Append(requests, [tag |-> call.tag, stale |-> FALSE,
                                             raised |-> "none"])
            /\ call' = NoSend
            /\ UNCHANGED client
       ELSE /\ client' = [client EXCEPT !.address_cache = 0]
            /\ call' = [call EXCEPT !.phase = "lookup", !.stale = TRUE]
            /\ UNCHANGED <<queues, requests>>
    /\ UNCHANGED <<behaviors, recvWait, ret, nextTag, recvLog, lvars, handles,
                   bound_handles, futures, future, future_value, listener, inflight,
                   seen, respLog, respCount, processed, dropped>>

\* The address is read from Redis again: a direct attempt on it when one is
\* published, the indirection queue when there is none or the attempt fails.
hybrid_send_lookup ==
    /\ call.phase = "lookup"
    /\ IF SendDirect(client.port, backend.address)
       THEN /\ queues' = Append(queues, call.tag)
            /\ client' = [client EXCEPT !.address_cache = backend.address]
            /\ UNCHANGED backend
       ELSE /\ backend' = [backend EXCEPT !.queue = BrokerPush(@, call.tag)]
            /\ UNCHANGED <<queues, client>>
    /\ requests' = Append(requests, [tag |-> call.tag, stale |-> call.stale,
                                     raised |-> "none"])
    /\ call' = NoSend
    /\ UNCHANGED <<behaviors, recvWait, ret, nextTag, recvLog, agent, runner, manager,
                   handles, bound_handles, futures, future, future_value, listener,
                   inflight, seen, respLog, respCount, processed, dropped>>

\* The mailbox's background task moves a message from Redis to the local queue.
hybrid_pull ==
    /\ client.port # 0
    /\ backend.queue # <<>>
    /\ queues' = Append(queues, Head(backend.queue))
    /\ backend' = [backend EXCEPT !.queue = Tail(@)]
    /\ UNCHANGED <<xvars, nextTag, hvars, agent, runner, manager>>

\* recv() of the destination's client.
hybrid_recv ==
    /\ client.port # 0
    /\ queues # <<>>
    /\ recvLog' = Append(recvLog, Head(queues))
    /\ queues' = Tail(queues)
    /\ UNCHANGED <<behaviors, client, recvWait, ret, nextTag, hvars, lvars>>

InitHybrid ==
    /\ queues = <<>>
    /\ behaviors = <<>>
    /\ client = [port |-> 0, address_cache |-> 0]
    /\ recvWait = <<>>
    /\ ret = <<>>
    /\ nextTag = 1
    /\ recvLog = <<>>
    /\ handles = <<>>
    /\ bound_handles = <<>>
    /\ futures = <<>>
    /\ future = <<>>
    /\ future_value = <<>>
    /\ call = NoSend
    /\ requests = <<>>
    /\ listener = <<>>
    /\ inflight = {}
    /\ seen = {}
    /\ respLog = {}
    /\ respCount = <<>>
    /\ processed = {}
    /\ dropped = {}
    /\ agent = NoAgent
    /\ runner = RunnerIdle
    /\ manager = NoManager
    /\ backend = [address |-> 0, queue |-> <<>>]

NextHybrid ==
    \/ \E p \in Ports : hybrid_bind(p)
    \/ hybrid_close
    \/ hybrid_send
    \/ hybrid_send_cached
    \/ hybrid_send_lookup
    \/ hybrid_pull
    \/ hybrid_recv

SpecHybrid == InitHybrid /\ [][NextHybrid]_vars

Runners == {"owner", "guest"}

LoopCalls(n) == Len(runner.calls) + Cardinality({r \in Runners : runner.pc[r] # "idle"}) < n

\* stop(): the is_closed() test.
runner_stop(r) ==
    /\ runner.pc[r] = "idle"
    /\ LoopCalls(MaxApiCalls + 1)
    /\ runner' = IF runner.loop = "closed"
                 THEN [runner EXCEPT !.calls = Append(@, [runner |-> r, op |-> "stop",
                                                          result |-> "none"])]
                 ELSE [runner EXCEPT !.pc[r] = "call"]
    /\ UNCHANGED <<queues, nextTag, xvars, hvars, agent, mvars>>

\* stop(): loop.call_soon_threadsafe(loop.stop), which raises RuntimeError on a
\* closed loop; a runner without a thread returns here.
runner_stop_call(r) ==
    /\ runner.pc[r] = "call"
    /\ runner' =
         IF runner.loop = "closed"
         THEN [runner EXCEPT !.pc[r] = "idle",
                             !.calls = Append(@, [runner |-> r, op |-> "stop",
                                                  result |-> "RuntimeError"])]
         ELSE IF r = "owner"
         THEN [runner EXCEPT !.stop_scheduled = TRUE, !.pc[r] = "join"]
         ELSE [runner EXCEPT !.stop_scheduled = TRUE, !.pc[r] = "idle",
                             !.calls = Append(@, [runner |-> r, op |-> "stop",
                                                  result |-> "none"])]
    /\ UNCHANGED <<queues, nextTag, xvars, hvars, agent, mvars>>

\* stop(): self._thread.join() returns once the loop thread has exited.
runner_join ==
    /\ runner.pc["owner"] = "join"
    /\ runner.loop = "closed"
    /\ runner' = [runner EXCEPT !.pc["owner"] = "idle",
                                !.calls = Append(@, [runner |-> "owner", op |-> "stop",
                                                     result |-> "none"])]
    /\ UNCHANGED <<queues, nextTag, xvars, hvars, agent, mvars>>

run_coroutine(r) ==
    /\ runner.pc[r] = "idle"
    /\ LoopCalls(MaxApiCalls + 1)
    /\ runner' =
         IF runner.loop = "closed"
         THEN [runner EXCEPT !.calls = Append(@, [runner |-> r, op |-> "run_coroutine",
                                                  result |-> "RuntimeError"])]
         ELSE [runner EXCEPT !.pending = @ + 1,
                             !.calls = Append(@, [runner |-> r, op |-> "run_coroutine",
                                                  result |-> "future"])]
    /\ UNCHANGED <<queues, nextTag, xvars, hvars, agent, mvars>>

\* The loop thread: run_forever() runs a submitted coroutine,
loop_run_coro ==
    /\ runner.loop = "running"
    /\ runner.pending > 0
    /\ runner' = [runner EXCEPT !.pending = @ - 1, !.completed = @ + 1]
    /\ UNCHANGED <<queues, nextTag, xvars, hvars, agent, mvars>>

\* runs the loop.stop callback and returns,
loop_run_stop ==
    /\ runner.loop = "running"
    /\ runner.stop_scheduled
    /\ runner' = [runner EXCEPT !.loop = "stopped", !.stop_scheduled = FALSE]
    /\ UNCHANGED <<queues, nextTag, xvars, hvars, agent, mvars>>

\* and _run_loop closes the loop; the thread exits.
loop_close ==
    /\ runner.loop = "stopped"
    /\ runner' = [runner EXCEPT !.loop = "closed"]
    /\ UNCHANGED <<queues, nextTag, xvars, hvars, agent, mvars>>

\* EventLoopRunner() and EventLoopRunner(loop=owner.loop) were constructed.
InitLoop ==
    /\ queues = <<>>
    /\ behaviors = <<>>
    /\ client = <<>>
    /\ recvWait = <<>>
    /\ ret = <<>>
    /\ nextTag = 1
    /\ recvLog = <<>>
    /\ handles = <<>>
    /\ bound_handles = <<>>
    /\ futures = <<>>
    /\ future = <<>>
    /\ future_value = <<>>
    /\ call = <<>>
    /\ requests = <<>>
    /\ listener = <<>>
    /\ inflight = {}
    /\ seen = {}
    /\ respLog = {}
    /\ respCount = <<>>
    /\ processed = {}
    /\ dropped = {}
    /\ agent = NoAgent
    /\ runner = [loop |-> "running", stop_scheduled |-> FALSE, pending |-> 0,
                 completed |-> 0, pc |-> [r \in Runners |-> "idle"], calls |-> <<>>]
    /\ manager = NoManager
    /\ backend = NoBackend

NextLoop ==
    \/ \E r \in Runners : runner_stop(r)
    \/ \E r \in Runners : runner_stop_call(r)
    \/ runner_join
    \/ \E r \in Runners : run_coroutine(r)
    \/ loop_run_coro
    \/ loop_run_stop
    \/ loop_close

SpecLoop == InitLoop /\ [][NextLoop]_vars

\* C35: stop() of the runner that was given a running loop does nothing: as
\* long as the owner has not called stop(), the loop runs, no stop is
\* scheduled on it, and the owner's run_coroutine() returns a future.
C35_GuestStopDoesNothing ==
    LET OwnerStopped == \/ runner.pc["owner"] # "idle"
                        \/ \E i \in 1..Len(runner.calls) :
                              runner.calls[i].runner = "owner" /\ runner.calls[i].op = "stop"
    IN ~OwnerStopped =>
          /\ runner.loop = "running"
          /\ ~runner.stop_scheduled
          /\ \A i \in 1..Len(runner.calls) :
                runner.calls[i].op = "run_coroutine" => runner.calls[i].result = "future"

(***************************************************************************)
(* The listener thread and the termination of its own mailbox (SpecListen, *)
(* FairSpecListen): user clients with running listeners; any client's      *)
(* mailbox is terminated at any moment, and a client is closed with        *)
(* BoundExchangeClient.close(), which joins the listener thread.           *)
(***************************************************************************)
\* close(): the own ClientId mailbox is terminated,
client_close(c) ==
    /\ client[c] = "bound"
    /\ queues' = Terminated(queues, c)
    /\ client' = [client EXCEPT ![c] = "closing"]
    /\ UNCHANGED <<behaviors, recvWait, ret, nextTag, recvLog, hvars, lvars>>

\* and self._listener_thread.join() returns once the thread has ended.
client_close_join(c) ==
    /\ client[c] = "closing"
    /\ listener[c] # "running"
    /\ client' = [client EXCEPT ![c] = "closed"]
    /\ UNCHANGED <<queues, behaviors, recvWait, ret, nextTag, recvLog, hvars, lvars>>

NextListen ==
    \/ \E c \in Callers, dest \in ClientIds :
          raw_send(c, dest, <<"PingRequest", "none">>)
    \/ \E c \in ClientIds : listen(c)
    \/ \E c, uid \in ClientIds : terminate(c, uid)
    \/ \E c \in ClientIds : client_close(c)
    \/ \E c \in ClientIds : client_close_join(c)

SpecListen == InitHandle /\ [][NextListen]_vars

\* The listener threads run, and so does the thread inside close().
FairSpecListen ==
    /\ SpecListen
    /\ \A c \in ClientIds : WF_vars(listen(c)) /\ WF_vars(client_close_join(c))

\* C36: once a client's mailbox is terminated its running listener
\* eventually exits without raising, an exited listener takes no further
\* message out of the mailbox and dispatches nothing, and a close() of the
\* client returns.
C36_ListenerStopsOnClosedMailbox ==
    /\ \A c \in ClientIds :
          (status(c) = "TERMINATED" /\ listener[c] = "running")
              ~> (listener[c] = "exited")
    /\ \A c \in ClientIds : (client[c] = "closing") ~> (client[c] = "closed")
    /\ [][\A c \in ClientIds :
            (listener[c] = "exited" \/ (status(c) = "TERMINATED" /\ listener'[c] = "exited")) =>
                /\ listener'[c] = "exited"
                /\ Len(queues'[c].items) >= Len(queues[c].items)
                /\ (\A d \in ClientIds \ {c} : listener'[d] = listener[d]) =>
                      (processed' = processed /\ respLog' = respLog)]_vars

\* A listener with a message still queued exited because its mailbox was
\* terminated, and the close() of its client returned.
C36_Witness ==
    \E c \in ClientIds :
        /\ listener[c] = "exited"
        /\ status(c) = "TERMINATED"
        /\ queues[c].items # <<>>
        /\ client[c] = "closed"

(***************************************************************************)
(* launch() of Launcher and of Manager (SpecLaunch).  Here the variable    *)
(* runner is                                                               *)
(*   kind        "Launcher" | "Manager"                                    *)
(*   registered  the agent ids registered with the exchange                *)
(*   acbs        _acbs: agent id -> index of its control block's task (0:  *)
(*               no key)                                                   *)
(*   tasks       the run tasks created, in order: [agent_id, done]         *)
(*   calls       the launch() calls made: [id, raised]                     *)
(***************************************************************************)
LaunchIds == {"None"} \cup ManagedAgents

\* register_agent() without an id draws a new AgentId.
NewAgentId ==
    LET i == CHOOSE i \in 1..Len(AcbOrder) :
                /\ AcbOrder[i] \notin runner.registered
                /\ \A j \in 1..(i - 1) : AcbOrder[j] \in runner.registered
    IN AcbOrder[i]

\* The task is created and the control block stored under the agent id.
Launched(a, id) ==
    [runner EXCEPT !.registered = @ \cup {a},
                   !.tasks = Append(@, [agent_id |-> a, done |-> FALSE]),
                   !.acbs[a] = Len(runner.tasks) + 1,
                   !.calls = Append(@, [id |-> id, raised |-> "none"])]

\* Launcher.launch(behavior, exchange, agent_id=id)
launcher_launch(id) ==
    /\ runner.kind = "Launcher"
    /\ Len(runner.calls) <= MaxApiCalls
    /\ id = "None" => runner.registered # ManagedAgents
    /\ runner' = Launched(IF id = "None" THEN NewAgentId ELSE id, id)
    /\ UNCHANGED <<queues, nextTag, xvars, hvars, agent, mvars>>

\* Manager.launch(behavior, executor=..., registration=...) of a manager that
\* has no default executor; id names the agent of the registration passed.
manager_launch(id, executor) ==
    /\ runner.kind = "Manager"
    /\ Len(runner.calls) <= MaxApiCalls
    /\ id = "None" => runner.registered # ManagedAgents
    /\ runner' =
         IF ~executor
         THEN [runner EXCEPT !.calls = Append(@, [id |-> id, raised |-> "ValueError"])]
         ELSE IF id # "None" /\ runner.acbs[id] # 0
         THEN [runner EXCEPT !.calls = Append(@, [id |-> id, raised |-> "RuntimeError"])]
         ELSE Launched(IF id = "None" THEN NewAgentId ELSE id, id)
    /\ UNCHANGED <<queues, nextTag, xvars, hvars, agent, mvars>>

\* A run task ends.
launch_task_done(t) ==
    /\ t \in 1..Len(runner.tasks)
    /\ ~runner.tasks[t].done
    /\ runner' = [runner EXCEPT !.tasks[t].done = TRUE]
    /\ UNCHANGED <<queues, nextTag, xvars, hvars, agent, mvars>>

InitLaunch ==
    /\ queues = <<>>
    /\ behaviors = <<>>
    /\ client = <<>>
    /\ recvWait = <<>>
    /\ ret = <<>>
    /\ nextTag = 1
    /\ recvLog = <<>>
    /\ handles = <<>>
    /\ bound_handles = <<>>
    /\ futures = <<>>
    /\ future = <<>>
    /\ future_value = <<>>
    /\ call = <<>>
    /\ requests = <<>>
    /\ listener = <<>>
    /\ inflight = {}
    /\ seen = {}
    /\ respLog = {}
    /\ respCount = <<>>
    /\ processed = {}
    /\ dropped = {}
    /\ agent = NoAgent
    /\ \E kind \in {"Launcher", "Manager"} :
          runner = [kind |-> kind, registered |-> {},
                    acbs |-> [a \in ManagedAgents |-> 0], tasks |-> <<>>, calls |-> <<>>]
    /\ manager = NoManager
    /\ backend = NoBackend

NextLaunch ==
    \/ \E id \in LaunchIds : launcher_launch(id)
    \/ \E id \in LaunchIds, executor \in BOOLEAN : manager_launch(id, executor)
    \/ \E t \in 1..(MaxApiCalls + 1) : launch_task_done(t)

SpecLaunch == InitLaunch /\ [][NextLaunch]_vars

\* C37: at most one run task ever exists per agent id, and a launch() with
\* the id of an agent launched before raises RuntimeError.
C37_OneRunTaskPerAgent ==
    /\ \A a \in ManagedAgents :
          Cardinality({t \in 1..Len(runner.tasks) : runner.tasks[t].agent_id = a}) <= 1
    /\ \A i, j \in 1..Len(runner.calls) :
          (/\ i < j
           /\ runner.calls[i].raised = "none"
           /\ runner.calls[j].id # "None"
           /\ runner.calls[j].id = runner.calls[i].id) =>
              runner.calls[j].raised \in {"RuntimeError", "ValueError"}

\* C38: a wait(agent, timeout) that ends in TimeoutError leaves the agent's
\* run task as it was: still pending (the agent is in running()), not
\* cancelled, with no attempt ended by the wait.
C38_WaitTimeoutLeavesTask ==
    [][(runner'.wait # runner.wait /\ runner'.wait.raised = "TimeoutError") =>
          /\ runner'.task = "pending"
          /\ runner'.task = runner.task
          /\ runner'.phase = runner.phase
          /\ runner'.attempts = runner.attempts]_vars

\* C39: when exchange.send() raises inside action() or ping() the error
\* reaches the caller and the handle keeps no pending slot for the request's
\* tag: _futures holds only tags of requests that were sent (or are being
\* sent) and are not answered yet.
C39_FailedSendLeavesNoSlot ==
    \A t \in 1..Len(requests) :
        \A h \in HandleIds :
            t \in futures[h] =>
                /\ call[t] # "raised_send"
                /\ future[t] = "pending"

\* C40: the handle is registered with its client and the pending slot of a
\* request is recorded before the request is handed to send(): from the start
\* of the send until the response is dispatched the handle is found by the
\* label and holds a slot for the tag, the dispatch of the response to a
\* waiting call finds that slot, and no response to a handle's request is
\* dropped for want of a handle.
C40_SlotRecordedBeforeSend ==
    [][\A t \in 1..Len(requests') :
          LET m == requests'[t] IN
          m.label # NoLabel =>
              /\ (/\ call'[t] \in {"sending", "waiting"}
                  /\ <<m.label, t>> \notin processed') =>
                    /\ m.label \in bound_handles'[m.src]
                    /\ t \in futures'[m.label]
                    /\ future'[t] = "pending"
              /\ t \notin dropped'
              /\ (/\ <<m.label, t>> \in processed' \ processed
                  /\ call[t] \in {"sending", "waiting"}) =>
                    t \in futures[m.label]]_vars

\* A response was dispatched to the handle of a call and completed its future.
C40_Witness ==
    \E t \in 1..Len(requests) :
        /\ requests[t].label # NoLabel
        /\ <<requests[t].label, t>> \in processed
        /\ future[t] \in {"result", "exception"}
        /\ call[t] \in {"waiting", "returned", "raised_remote"}

====
